---- MODULE Spec2Model ----
(***************************************************************************)
(* OAuth token lifecycle of better-email-mcp: the encrypted token store    *)
(* (store.ts), the provider registry (providers.ts) and the expiry-aware   *)
(* refresh logic (refresh.ts).                                             *)
(*                                                                         *)
(* Strings the code takes apart (emails, domains, file names) are          *)
(* sequences of one-character strings.  Opaque strings (tokens) are        *)
(* records [k, n]: k = "" is the empty string, k = "undefined" a missing   *)
(* JSON field, anything else a non-empty token numbered n.                 *)
(***************************************************************************)
EXTENDS Integers, Sequences, FiniteSets, TLC

VARIABLES
    now,        \* Date.now(), in milliseconds
    files,      \* ACCOUNTS_DIR: file name -> content
    clientFile, \* CLIENT_CONFIG_FILE content
    calls,      \* the ensureFreshToken invocations in progress, one record per slot
    endpoint,   \* the provider's token endpoint, as far as the claims look at it
    lastOp,     \* what the step that led here did: the operation, its inputs and outcome
    flows,      \* the runOAuthFlow invocations, one record per slot
    ports,      \* the loopback ports: who is bound to each
    mail        \* the sendNewEmail, replyToEmail or forwardEmail operation in progress

vars == <<now, files, clientFile, calls, endpoint, lastOp, flows, ports, mail>>

-----------------------------------------------------------------------------
(* Bounds of the model *)

MaxTicks == 2        \* the clock stops after this many ticks
MaxIssued == 2       \* the endpoint issues at most this many token pairs
NumCalls == 2        \* ensureFreshToken invocations that may overlap
MaxFlowTicks == 2    \* the clock of an authorization flow stops after this many ticks
NumFlows == 2        \* runOAuthFlow invocations the model has room for

Calls == 1 .. NumCalls
Flows == 1 .. NumFlows

-----------------------------------------------------------------------------
(* Character strings *)

UpperChars == <<"A","B","C","D","E","F","G","H","I","J","K","L","M",
                "N","O","P","Q","R","S","T","U","V","W","X","Y","Z">>
LowerChars == <<"a","b","c","d","e","f","g","h","i","j","k","l","m",
                "n","o","p","q","r","s","t","u","v","w","x","y","z">>

\* String.prototype.toLowerCase, one character
LowerChar(c) ==
    IF \E i \in 1 .. Len(UpperChars) : UpperChars[i] = c
    THEN LowerChars[CHOOSE i \in 1 .. Len(UpperChars) : UpperChars[i] = c]
    ELSE c

toLowerCase(s) == [i \in 1 .. Len(s) |-> LowerChar(s[i])]

\* String.prototype.endsWith
endsWith(s, suffix) ==
    /\ Len(suffix) <= Len(s)
    /\ SubSeq(s, Len(s) - Len(suffix) + 1, Len(s)) = suffix

\* Positions of the character c in s
IndicesOf(s, c) == {i \in 1 .. Len(s) : s[i] = c}

Min(S) == CHOOSE x \in S : \A y \in S : x <= y

\* email.split('@')[1]: the text between the first '@' and the next one;
\* Undefined when the string has no '@'
NoString == <<"undefined">>
SplitAt1(s) ==
    LET ats == IndicesOf(s, "@") IN
    IF ats = {} THEN NoString
    ELSE LET first == Min(ats)
             rest == {i \in ats : i > first}
             last == IF rest = {} THEN Len(s) ELSE Min(rest) - 1
         IN SubSeq(s, first + 1, last)

-----------------------------------------------------------------------------
(* providers.ts *)

GOOGLE_PROVIDER ==
    [name |-> "google",
     authorizationEndpoint |-> "https://accounts.google.com/o/oauth2/v2/auth",
     tokenEndpoint |-> "https://oauth2.googleapis.com/token",
     scopes |-> <<"https://mail.google.com/">>,
     domains |-> << <<"g","m","a","i","l",".","c","o","m">>,
                    <<"g","o","o","g","l","e","m","a","i","l",".","c","o","m">> >>]

MICROSOFT_PROVIDER ==
    [name |-> "microsoft",
     authorizationEndpoint |-> "https://login.microsoftonline.com/common/oauth2/v2.0/authorize",
     tokenEndpoint |-> "https://login.microsoftonline.com/common/oauth2/v2.0/token",
     scopes |-> <<"https://outlook.office365.com/IMAP.AccessAsUser.All",
                  "https://outlook.office365.com/SMTP.Send",
                  "offline_access">>,
     domains |-> << <<"o","u","t","l","o","o","k",".","c","o","m">>,
                    <<"h","o","t","m","a","i","l",".","c","o","m">>,
                    <<"l","i","v","e",".","c","o","m">> >>]

PROVIDERS == <<GOOGLE_PROVIDER, MICROSOFT_PROVIDER>>

NoProvider ==
    [name |-> "null", authorizationEndpoint |-> "", tokenEndpoint |-> "", scopes |-> <<>>,
     domains |-> <<>>]

\* provider.domains.includes(domain) or domain.endsWith(`.${d}`) for one of them
ProviderMatches(p, domain) ==
    \E i \in 1 .. Len(p.domains) :
        \/ p.domains[i] = domain
        \/ endsWith(domain, <<".">> \o p.domains[i])

\* Mutant of the lookup: a subdomain of a provider's domain is not matched
detectProviderIn_ExactOnly(providers, email) ==
    LET raw == SplitAt1(email) IN
    IF raw = NoString \/ raw = <<>> THEN NoProvider
    ELSE LET domain == toLowerCase(raw)
             hits == {i \in 1 .. Len(providers) :
                        \E j \in 1 .. Len(providers[i].domains) :
                            providers[i].domains[j] = domain}
         IN IF hits = {} THEN NoProvider ELSE providers[Min(hits)]

\* The body of detectProvider over the registry `providers`: the first
\* provider of the list with a domain that matches
detectProviderIn(providers, email) ==
    LET raw == SplitAt1(email) IN
    IF raw = NoString \/ raw = <<>> THEN NoProvider
    ELSE LET domain == toLowerCase(raw)
             hits == {i \in 1 .. Len(providers) : ProviderMatches(providers[i], domain)}
         IN IF hits = {} THEN NoProvider ELSE providers[Min(hits)]

detectProvider(email) == detectProviderIn(PROVIDERS, email)

isOAuthSupported(email) == detectProvider(email) # NoProvider

-----------------------------------------------------------------------------
(* store.ts: encryption *)

\* Opaque strings
EmptyString == [k |-> "", n |-> 0]
Undefined == [k |-> "undefined", n |-> 0]
Falsy(t) == t.k = "" \/ t.k = "undefined"
AccessTokenNo(n) == [k |-> "AT", n |-> n]
RefreshTokenNo(n) == [k |-> "RT", n |-> n]

\* `better-email-mcp:${homedir()}:${process.arch}` of the running process, and
\* the one of another machine or user
Passphrase == "better-email-mcp:/home/user:x64"
ForeignPassphrase == "better-email-mcp:/home/other:arm64"

\* randomBytes(SALT_LENGTH), randomBytes(IV_LENGTH)
Salts == {0}
Ivs == {0}
\* The random bytes one saveTokens draws: salt and iv of the access token, then
\* of the refresh token
SaveDraws == Salts \X Ivs \X Salts \X Ivs

deriveKey(passphrase, salt) == [passphrase |-> passphrase, salt |-> salt]

\* AES-256-GCM under `key` and `iv`: the ciphertext and its authentication tag
GcmCipher(key, iv, plaintext) == [key |-> key, iv |-> iv, plaintext |-> plaintext]
GcmTag(key, iv, plaintext) == [key |-> key, iv |-> iv, auth |-> plaintext]

\* A string that holds an unpaired surrogate, and the same string with U+FFFD
\* in its place
IllFormedNo(n) == [k |-> "unpaired surrogate", n |-> n]
ReplacedNo(n) == [k |-> "U+FFFD", n |-> n]

\* cipher.update(plaintext, 'utf8', ...): the UTF-8 bytes of the string, an
\* unpaired surrogate encoded as U+FFFD; and decipher.update(..., 'utf8')
utf8Encode(text) ==
    [bytesOf |-> IF text.k = "unpaired surrogate" THEN ReplacedNo(text.n) ELSE text]
utf8Decode(bytes) == bytes.bytesOf

\* encrypt(plaintext): the string `salt:iv:tag:encrypted`, kept as its parts
EncryptWith(passphrase, plaintext, salt, iv) ==
    LET key == deriveKey(passphrase, salt)
        bytes == utf8Encode(plaintext)
    IN [k |-> "encrypted", n |-> 0,
        parts |-> <<salt, iv, GcmTag(key, iv, bytes), GcmCipher(key, iv, bytes)>>]

encrypt(plaintext, salt, iv) == EncryptWith(Passphrase, plaintext, salt, iv)

\* ciphertext.split(':'): a string that is not of the encrypted form holds no ':'
SplitColon(ciphertext) ==
    IF ciphertext.k = "encrypted" THEN ciphertext.parts ELSE <<ciphertext>>

\* Mutant of decrypt: the authentication tag and the key are not checked
decrypt_TagNotChecked(ciphertext) ==
    LET parts == SplitColon(ciphertext) IN
    IF Len(parts) # 4 THEN [ok |-> FALSE, text |-> Undefined]
    ELSE [ok |-> TRUE, text |-> utf8Decode(parts[4].plaintext)]

\* decrypt(ciphertext): ok = FALSE where the code throws
DecryptFailed == [ok |-> FALSE, text |-> Undefined]
decrypt(ciphertext) ==
    LET parts == SplitColon(ciphertext) IN
    IF Len(parts) # 4 THEN DecryptFailed
    ELSE LET key == deriveKey(Passphrase, parts[1])
             iv == parts[2]
             tag == parts[3]
             encrypted == parts[4]
         IN IF /\ encrypted.key = key
               /\ encrypted.iv = iv
               /\ tag = GcmTag(key, iv, encrypted.plaintext)
            THEN [ok |-> TRUE, text |-> utf8Decode(encrypted.plaintext)]
            ELSE DecryptFailed

-----------------------------------------------------------------------------
(* store.ts: token storage *)

DotJson == <<".","j","s","o","n">>

\* email.replace(/[@.]/g, '_').toLowerCase() + '.json'
emailToFilename(email) ==
    toLowerCase([i \in 1 .. Len(email) |->
                    IF email[i] = "@" \/ email[i] = "." THEN "_" ELSE email[i]])
        \o DotJson

\* new Date(t).toISOString()
toISOString(t) == [iso |-> t]

NoFile == [kind |-> "none"]
GarbageFile == [kind |-> "garbage"]
NoTokens == [kind |-> "null"]

\* Mutant of the object saveTokens writes: createdAt is set to the time of the save
TokenFile_CreatedAtNow(tokens, t, rnd) ==
    [kind |-> "json",
     email |-> tokens.email,
     provider |-> tokens.provider,
     accessToken |-> encrypt(tokens.accessToken, rnd[1], rnd[2]),
     refreshToken |-> encrypt(tokens.refreshToken, rnd[3], rnd[4]),
     tokenExpiry |-> tokens.tokenExpiry,
     scopes |-> tokens.scopes,
     createdAt |-> toISOString(t),
     updatedAt |-> toISOString(t)]

\* The JSON object saveTokens writes
TokenFile(tokens, t, rnd) ==
    [kind |-> "json",
     email |-> tokens.email,
     provider |-> tokens.provider,
     accessToken |-> encrypt(tokens.accessToken, rnd[1], rnd[2]),
     refreshToken |-> encrypt(tokens.refreshToken, rnd[3], rnd[4]),
     tokenExpiry |-> tokens.tokenExpiry,
     scopes |-> tokens.scopes,
     createdAt |-> tokens.createdAt,
     updatedAt |-> toISOString(t)]

\* saveTokens(tokens) at time t with the random bytes drawn: the directory afterwards
saveTokens(dir, tokens, t, rnd) ==
    [dir EXCEPT ![emailToFilename(tokens.email)] = TokenFile(tokens, t, rnd)]

\* Mutant of loadTokens: a failing decrypt is not turned into null
loadTokens_NoCatch(dir, email) ==
    LET raw == dir[emailToFilename(email)] IN
    IF raw.kind # "json" THEN NoTokens
    ELSE [kind |-> "tokens",
          email |-> raw.email,
          provider |-> raw.provider,
          accessToken |-> decrypt(raw.accessToken).text,
          refreshToken |-> decrypt(raw.refreshToken).text,
          tokenExpiry |-> raw.tokenExpiry,
          scopes |-> raw.scopes,
          createdAt |-> raw.createdAt,
          updatedAt |-> raw.updatedAt]

\* loadTokens(email): NoTokens where the code returns null
loadTokens(dir, email) ==
    LET raw == dir[emailToFilename(email)] IN
    IF raw.kind # "json" THEN NoTokens
    ELSE LET at == decrypt(raw.accessToken)
             rt == decrypt(raw.refreshToken)
         IN IF ~at.ok \/ ~rt.ok THEN NoTokens
            ELSE [kind |-> "tokens",
                  email |-> raw.email,
                  provider |-> raw.provider,
                  accessToken |-> at.text,
                  refreshToken |-> rt.text,
                  tokenExpiry |-> raw.tokenExpiry,
                  scopes |-> raw.scopes,
                  createdAt |-> raw.createdAt,
                  updatedAt |-> raw.updatedAt]

\* deleteTokens(email): the directory afterwards, and the returned boolean
deleteTokensResult(dir, email) == dir[emailToFilename(email)].kind # "none"
deleteTokens(dir, email) == [dir EXCEPT ![emailToFilename(email)] = NoFile]

hasTokens(dir, email) == dir[emailToFilename(email)].kind # "none"

-----------------------------------------------------------------------------
(* store.ts: OAuth client configuration *)

ProviderNames == {"google", "microsoft"}
NoClientConfig == [kind |-> "null"]
NoEntry == [present |-> FALSE]

\* The object JSON.parse yields for the file, {} when it is missing or unparseable
ParsedConfigs(file) ==
    IF file.kind = "json" THEN file.configs ELSE [p \in ProviderNames |-> NoEntry]

\* Mutant of saveClientConfig: the secrets of the entries read from the file
\* are encrypted again
saveClientConfig_ReEncrypts(file, config, salt, iv) ==
    [kind |-> "json",
     configs |-> [q \in ProviderNames |->
                    IF q = config.provider
                    THEN [present |-> TRUE,
                          provider |-> config.provider,
                          clientId |-> config.clientId,
                          clientSecret |-> encrypt(config.clientSecret, salt, iv)]
                    ELSE IF ParsedConfigs(file)[q].present
                    THEN [ParsedConfigs(file)[q] EXCEPT
                            !.clientSecret = encrypt(ParsedConfigs(file)[q].clientSecret, salt, iv)]
                    ELSE NoEntry]]

\* Mutant of saveClientConfig: the file is written with the saved entry alone
saveClientConfig_DropsOthers(file, config, salt, iv) ==
    [kind |-> "json",
     configs |-> [[p \in ProviderNames |-> NoEntry] EXCEPT ![config.provider] =
                    [present |-> TRUE,
                     provider |-> config.provider,
                     clientId |-> config.clientId,
                     clientSecret |-> encrypt(config.clientSecret, salt, iv)]]]

saveClientConfig(file, config, salt, iv) ==
    [kind |-> "json",
     configs |-> [ParsedConfigs(file) EXCEPT ![config.provider] =
                    [present |-> TRUE,
                     provider |-> config.provider,
                     clientId |-> config.clientId,
                     clientSecret |-> encrypt(config.clientSecret, salt, iv)]]]

\* Mutant of loadClientConfig: the entry of whichever provider is configured
\* is returned
loadClientConfig_AnyProvider(file, provider) ==
    IF file.kind # "json" THEN NoClientConfig
    ELSE IF \A q \in ProviderNames : ~file.configs[q].present THEN NoClientConfig
    ELSE LET config == file.configs[CHOOSE q \in ProviderNames : file.configs[q].present]
             secret == decrypt(config.clientSecret)
         IN IF ~secret.ok THEN NoClientConfig
            ELSE [kind |-> "config",
                  provider |-> config.provider,
                  clientId |-> config.clientId,
                  clientSecret |-> secret.text]

loadClientConfig(file, provider) ==
    IF file.kind # "json" THEN NoClientConfig
    ELSE LET config == file.configs[provider] IN
         IF ~config.present THEN NoClientConfig
         ELSE LET secret == decrypt(config.clientSecret) IN
              IF ~secret.ok THEN NoClientConfig
              ELSE [kind |-> "config",
                    provider |-> config.provider,
                    clientId |-> config.clientId,
                    clientSecret |-> secret.text]

-----------------------------------------------------------------------------
(* refresh.ts *)

REFRESH_BUFFER_MS == 60000
DEFAULT_EXPIRES_IN == 3600

NoError == [kind |-> "none", reauth |-> FALSE, status |-> 0]
\* `No OAuth tokens found for ${email}. Authenticate with: ...`
NoTokensFound == [kind |-> "NoTokensFound", reauth |-> TRUE, status |-> 0]
\* `Cannot refresh: unknown provider for ${tokens.email}`
UnknownProvider == [kind |-> "UnknownProvider", reauth |-> FALSE, status |-> 0]
\* `Cannot refresh: no OAuth client configured for ${provider.name}`
NoClientConfigured == [kind |-> "NoClientConfigured", reauth |-> FALSE, status |-> 0]
\* `Cannot refresh: no refresh token stored for ... Re-authenticate with: ...`
NoRefreshToken == [kind |-> "NoRefreshToken", reauth |-> TRUE, status |-> 0]
\* `Token refresh failed for ${email}: ${errorText} Re-authenticate with: ...`
RefreshTokenInvalid == [kind |-> "RefreshFailed", reauth |-> TRUE, status |-> 0]
\* `Token refresh failed (${response.status}): ${errorText}`
RefreshFailed(status) == [kind |-> "RefreshFailed", reauth |-> FALSE, status |-> status]
\* 'No access token in refresh response'
NoAccessToken == [kind |-> "NoAccessToken", reauth |-> FALSE, status |-> 0]
\* the rejection of fetch itself
FetchRejected == [kind |-> "FetchRejected", reauth |-> FALSE, status |-> 0]

\* A JSON number field that may be missing
NoNumber == [defined |-> FALSE, value |-> 0]
Number(v) == [defined |-> TRUE, value |-> v]
\* x || d for a number field
NumberOr(x, d) == IF x.defined /\ x.value # 0 THEN x.value ELSE d
\* x || d for a string field
StringOr(x, d) == IF Falsy(x) THEN d ELSE x

NoRequest == [sent |-> FALSE]
NoResponse == [kind |-> "none"]

\* Mutant of RefreshPrecheck: the stored refresh token is not looked at
RefreshPrecheck_NoTokenCheck(tokens, cfile) ==
    LET provider == detectProvider(tokens.email) IN
    IF provider = NoProvider THEN UnknownProvider
    ELSE IF loadClientConfig(cfile, provider.name) = NoClientConfig THEN NoClientConfigured
    ELSE NoError

\* refreshAccessToken up to the fetch: the error thrown, NoError when the
\* request goes out
RefreshPrecheck(tokens, cfile) ==
    LET provider == detectProvider(tokens.email) IN
    IF provider = NoProvider THEN UnknownProvider
    ELSE IF loadClientConfig(cfile, provider.name) = NoClientConfig THEN NoClientConfigured
    ELSE IF Falsy(tokens.refreshToken) THEN NoRefreshToken
    ELSE NoError

\* The body and target of the POST refreshAccessToken sends
RefreshRequest(tokens, cfile) ==
    LET provider == detectProvider(tokens.email)
        clientConfig == loadClientConfig(cfile, provider.name)
    IN [sent |-> TRUE,
        url |-> provider.tokenEndpoint,
        client_id |-> clientConfig.clientId,
        client_secret |-> clientConfig.clientSecret,
        refresh_token |-> tokens.refreshToken,
        grant_type |-> "refresh_token"]

\* Mutant of RefreshStatusError: only 401 asks for re-authentication
RefreshStatusError_Only401(status) ==
    IF status = 401 THEN RefreshTokenInvalid ELSE RefreshFailed(status)

\* The error for a response that is not ok
RefreshStatusError(status) ==
    IF status = 400 \/ status = 401 THEN RefreshTokenInvalid ELSE RefreshFailed(status)

\* response.ok
ResponseOk(status) == status >= 200 /\ status <= 299

\* Mutant of RefreshOutcome: a 2xx response is not checked for its access_token
RefreshOutcome_NoTokenCheck(resp) ==
    IF resp.kind = "rejected"
    THEN [err |-> FetchRejected, accessToken |-> Undefined, expiresIn |-> 0,
          refreshToken |-> Undefined]
    ELSE IF ~ResponseOk(resp.status)
    THEN [err |-> RefreshStatusError(resp.status), accessToken |-> Undefined,
          expiresIn |-> 0, refreshToken |-> Undefined]
    ELSE [err |-> NoError,
          accessToken |-> resp.access_token,
          expiresIn |-> NumberOr(resp.expires_in, DEFAULT_EXPIRES_IN),
          refreshToken |-> resp.refresh_token]

\* refreshAccessToken from the response on: err # NoError where it throws
RefreshOutcome(resp) ==
    IF resp.kind = "rejected"
    THEN [err |-> FetchRejected, accessToken |-> Undefined, expiresIn |-> 0,
          refreshToken |-> Undefined]
    ELSE IF ~ResponseOk(resp.status)
    THEN [err |-> RefreshStatusError(resp.status), accessToken |-> Undefined,
          expiresIn |-> 0, refreshToken |-> Undefined]
    ELSE IF Falsy(resp.access_token)
    THEN [err |-> NoAccessToken, accessToken |-> Undefined, expiresIn |-> 0,
          refreshToken |-> Undefined]
    ELSE [err |-> NoError,
          accessToken |-> resp.access_token,
          expiresIn |-> NumberOr(resp.expires_in, DEFAULT_EXPIRES_IN),
          refreshToken |-> resp.refresh_token]

\* Mutants of StillValid: the comparison turned round; the buffer left out
StillValid_Inverted(tokens, t) ==
    tokens.tokenExpiry # 0 /\ t > tokens.tokenExpiry - REFRESH_BUFFER_MS
StillValid_NoBuffer(tokens, t) ==
    tokens.tokenExpiry # 0 /\ t < tokens.tokenExpiry

\* tokens.tokenExpiry && Date.now() < tokens.tokenExpiry - REFRESH_BUFFER_MS
StillValid(tokens, t) ==
    tokens.tokenExpiry # 0 /\ t < tokens.tokenExpiry - REFRESH_BUFFER_MS

\* Mutants of UpdatedTokens: expiresIn taken for milliseconds; the refresh
\* token of the response stored whatever it is
UpdatedTokens_SecondsExpiry(tokens, refreshed, t) ==
    [tokens EXCEPT !.accessToken = refreshed.accessToken,
                   !.tokenExpiry = t + refreshed.expiresIn,
                   !.refreshToken = StringOr(refreshed.refreshToken, tokens.refreshToken),
                   !.updatedAt = toISOString(t)]
UpdatedTokens_NoFallback(tokens, refreshed, t) ==
    [tokens EXCEPT !.accessToken = refreshed.accessToken,
                   !.tokenExpiry = t + refreshed.expiresIn * 1000,
                   !.refreshToken = refreshed.refreshToken,
                   !.updatedAt = toISOString(t)]

\* The record ensureFreshToken builds from the loaded one and the refresh result
UpdatedTokens(tokens, refreshed, t) ==
    [tokens EXCEPT !.accessToken = refreshed.accessToken,
                   !.tokenExpiry = t + refreshed.expiresIn * 1000,
                   !.refreshToken = StringOr(refreshed.refreshToken, tokens.refreshToken),
                   !.updatedAt = toISOString(t)]

\* Mutant of isTokenExpired: the buffer left out
isTokenExpired_NoBuffer(dir, email, t) ==
    LET tokens == loadTokens(dir, email) IN
    IF tokens = NoTokens THEN TRUE
    ELSE t >= tokens.tokenExpiry

\* isTokenExpired(email)
isTokenExpired(dir, email, t) ==
    LET tokens == loadTokens(dir, email) IN
    IF tokens = NoTokens THEN TRUE
    ELSE t >= tokens.tokenExpiry - REFRESH_BUFFER_MS

-----------------------------------------------------------------------------
(* flow.ts *)

\* 5 * 60 * 1000: the delay of the timer waitForCallback sets
CALLBACK_TIMEOUT_MS == 300000

\* What runOAuthFlow and the callback wait fail with
FlowError(kind, status) == [kind |-> kind, reauth |-> FALSE, status |-> status]
\* `OAuth is not supported for ${email}. Supported providers: ...`
ProviderNotSupported == FlowError("ProviderNotSupported", 0)
\* `No OAuth client configured for ${provider.name}. Run the setup first: ...`
ClientNotConfigured == FlowError("ClientNotConfigured", 0)
\* the rejection of findAvailablePort
PortAllocationFailed == FlowError("PortAllocationFailed", 0)
\* `Failed to start callback server: ${err.message}`
CallbackServerFailed == FlowError("CallbackServerFailed", 0)
\* `OAuth error: ${description}`
ProviderDeniedConsent == FlowError("ProviderDeniedConsent", 0)
\* 'Invalid callback parameters'
CallbackStateMismatch == FlowError("CallbackStateMismatch", 0)
\* 'OAuth flow timed out (5 minutes). Please try again.'
CallbackTimeout == FlowError("CallbackTimeout", 0)
\* `Token exchange failed (${response.status}): ${errorText}`
TokenExchangeFailed(status) == FlowError("TokenExchangeFailed", status)

\* generatePKCE(): the challenge is the SHA-256 digest of the verifier
CodeVerifierNo(n) == [k |-> "verifier", n |-> n]
sha256(text) == [k |-> "sha256", n |-> text.n]
generatePKCE(rnd) == [verifier |-> CodeVerifierNo(rnd), challenge |-> sha256(CodeVerifierNo(rnd))]

\* `http://localhost:${port}/callback`
RedirectUri(port) == [host |-> "localhost", port |-> port, path |-> "/callback"]
NoUrl == [shown |-> FALSE]

\* buildAuthUrl(provider, clientConfig, redirectUri, codeChallenge, state)
buildAuthUrl(provider, clientConfig, redirectUri, codeChallenge, state) ==
    [shown |-> TRUE,
     endpoint |-> provider.authorizationEndpoint,
     client_id |-> clientConfig.clientId,
     redirect_uri |-> redirectUri,
     response_type |-> "code",
     scope |-> provider.scopes,
     state |-> state,
     code_challenge |-> codeChallenge,
     code_challenge_method |-> "S256",
     access_type |-> "offline",
     prompt |-> "consent"]

\* The body and target of the POST exchangeCode sends
ExchangeRequest(provider, clientConfig, code, redirectUri, codeVerifier) ==
    [sent |-> TRUE,
     url |-> provider.tokenEndpoint,
     client_id |-> clientConfig.clientId,
     client_secret |-> clientConfig.clientSecret,
     code |-> code,
     grant_type |-> "authorization_code",
     redirect_uri |-> redirectUri,
     code_verifier |-> codeVerifier]

\* Mutant of ExchangeOutcome: a 2xx response is not checked for its access_token
ExchangeOutcome_NoTokenCheck(resp) ==
    IF resp.kind = "rejected"
    THEN [err |-> FetchRejected, accessToken |-> Undefined, expiresIn |-> 0,
          refreshToken |-> Undefined]
    ELSE IF ~ResponseOk(resp.status)
    THEN [err |-> TokenExchangeFailed(resp.status), accessToken |-> Undefined,
          expiresIn |-> 0, refreshToken |-> Undefined]
    ELSE [err |-> NoError,
          accessToken |-> resp.access_token,
          expiresIn |-> NumberOr(resp.expires_in, DEFAULT_EXPIRES_IN),
          refreshToken |-> StringOr(resp.refresh_token, EmptyString)]

\* Mutant of ExchangeOutcome: a 2xx response without access_token is reported
\* as a failed exchange with its status
ExchangeOutcome_StatusForMissingToken(resp) ==
    IF resp.kind = "rejected"
    THEN [err |-> FetchRejected, accessToken |-> Undefined, expiresIn |-> 0,
          refreshToken |-> Undefined]
    ELSE IF ~ResponseOk(resp.status) \/ Falsy(resp.access_token)
    THEN [err |-> TokenExchangeFailed(resp.status), accessToken |-> Undefined,
          expiresIn |-> 0, refreshToken |-> Undefined]
    ELSE [err |-> NoError,
          accessToken |-> resp.access_token,
          expiresIn |-> NumberOr(resp.expires_in, DEFAULT_EXPIRES_IN),
          refreshToken |-> StringOr(resp.refresh_token, EmptyString)]

\* exchangeCode from the response on: err # NoError where it throws
ExchangeOutcome(resp) ==
    IF resp.kind = "rejected"
    THEN [err |-> FetchRejected, accessToken |-> Undefined, expiresIn |-> 0,
          refreshToken |-> Undefined]
    ELSE IF ~ResponseOk(resp.status)
    THEN [err |-> TokenExchangeFailed(resp.status), accessToken |-> Undefined,
          expiresIn |-> 0, refreshToken |-> Undefined]
    ELSE IF Falsy(resp.access_token)
    THEN [err |-> NoAccessToken, accessToken |-> Undefined, expiresIn |-> 0,
          refreshToken |-> Undefined]
    ELSE [err |-> NoError,
          accessToken |-> resp.access_token,
          expiresIn |-> NumberOr(resp.expires_in, DEFAULT_EXPIRES_IN),
          refreshToken |-> StringOr(resp.refresh_token, EmptyString)]

\* The request handler of the callback server: the status and page it answers
\* with, and what it does to the promise of the wait ("none": it calls
\* neither resolve nor reject)
CallbackAnswer(status, page, settle, err, code) ==
    [status |-> status, page |-> page, settle |-> settle, err |-> err, code |-> code]

\* Mutant of CallbackHandler: the state is not compared with the expected one
CallbackHandler_NoStateCheck(req, expectedState) ==
    IF req.path # "/callback"
    THEN CallbackAnswer(404, "Not found", "none", NoError, Undefined)
    ELSE IF ~Falsy(req.error)
    THEN CallbackAnswer(200, "errorPage", "reject", ProviderDeniedConsent, Undefined)
    ELSE IF Falsy(req.code)
    THEN CallbackAnswer(400, "errorPage", "reject", CallbackStateMismatch, Undefined)
    ELSE CallbackAnswer(200, "successPage", "resolve", NoError, req.code)

\* Mutant of CallbackHandler: the path is not looked at
CallbackHandler_AnyPath(req, expectedState) ==
    IF ~Falsy(req.error)
    THEN CallbackAnswer(200, "errorPage", "reject", ProviderDeniedConsent, Undefined)
    ELSE IF Falsy(req.code) \/ req.state # expectedState
    THEN CallbackAnswer(400, "errorPage", "reject", CallbackStateMismatch, Undefined)
    ELSE CallbackAnswer(200, "successPage", "resolve", NoError, req.code)

\* url.pathname !== '/callback', then `error`, then `!code || state !== expectedState`
CallbackHandler(req, expectedState) ==
    IF req.path # "/callback"
    THEN CallbackAnswer(404, "Not found", "none", NoError, Undefined)
    ELSE IF ~Falsy(req.error)
    THEN CallbackAnswer(200, "errorPage", "reject", ProviderDeniedConsent, Undefined)
    ELSE IF Falsy(req.code) \/ req.state # expectedState
    THEN CallbackAnswer(400, "errorPage", "reject", CallbackStateMismatch, Undefined)
    ELSE CallbackAnswer(200, "successPage", "resolve", NoError, req.code)

-----------------------------------------------------------------------------
(* The accounts and inputs of the model *)

\* a@gmail.com, and a.gmail@com: no provider serves the domain "com", and
\* emailToFilename gives both addresses the file a_gmail_com.json
GmailUser == <<"a","@","g","m","a","i","l",".","c","o","m">>
OtherUser == <<"a",".","g","m","a","i","l","@","c","o","m">>
Emails == {GmailUser, OtherUser}
FileNames == {emailToFilename(e) : e \in Emails}

\* One tick of the clock
TickMs == REFRESH_BUFFER_MS

\* The records a direct saveTokens call is given: the Gmail account with and
\* without a refresh token, and an account no provider serves
InputRecord(email, refreshToken, tokenExpiry) ==
    [kind |-> "tokens",
     email |-> email,
     provider |-> "google",
     accessToken |-> AccessTokenNo(0),
     refreshToken |-> refreshToken,
     tokenExpiry |-> tokenExpiry,
     scopes |-> GOOGLE_PROVIDER.scopes,
     createdAt |-> toISOString(0),
     updatedAt |-> toISOString(0)]
InputTokens ==
    {InputRecord(GmailUser, RefreshTokenNo(0), 2 * REFRESH_BUFFER_MS),
     InputRecord(GmailUser, EmptyString, 2 * REFRESH_BUFFER_MS),
     InputRecord(OtherUser, RefreshTokenNo(0), 0)}

InputClientConfigs ==
    {[provider |-> "google", clientId |-> "client-id", clientSecret |-> [k |-> "CS", n |-> 0]]}

StatusCodes == {200, 400, 401, 500}

\* What the token endpoint may answer when it has issued n token pairs so far
Responses(n) ==
    {[kind |-> "rejected", status |-> 0, access_token |-> Undefined,
      refresh_token |-> Undefined, expires_in |-> NoNumber]}
    \cup {[kind |-> "http", status |-> st, access_token |-> Undefined,
            refresh_token |-> Undefined, expires_in |-> NoNumber] : st \in StatusCodes}
    \cup (IF n >= MaxIssued THEN {}
          ELSE {[kind |-> "http", status |-> 200, access_token |-> AccessTokenNo(n + 1),
                 refresh_token |-> rt, expires_in |-> Number(120)] :
                    rt \in {Undefined, EmptyString, RefreshTokenNo(n + 1)}}
               \cup {[kind |-> "http", status |-> 200, access_token |-> AccessTokenNo(n + 1),
                      refresh_token |-> RefreshTokenNo(n + 1), expires_in |-> x] :
                        x \in {NoNumber, Number(0)}})

\* The address of a Microsoft account: a@live.com
OutlookUser == <<"a","@","l","i","v","e",".","c","o","m">>
\* The addresses runOAuthFlow is called with
FlowEmails == Emails \cup {OutlookUser}

\* The loopback ports the operating system hands out
Ports == {49152, 49153}
NoPort == 0
\* Who is bound to a port: nobody, the callback server of a flow, another process
FreePort == [owner |-> "none", flow |-> 0]
BoundByFlow(f) == [owner |-> "flow", flow |-> f]
BoundByOther == [owner |-> "other", flow |-> 0]

\* randomBytes(16).toString('hex'), and randomBytes(32) of generatePKCE
StateNo(n) == [k |-> "state", n |-> n]
RandomStates == {StateNo(1), StateNo(2)}
RandomVerifiers == {1}

\* The query parameters of a request: Undefined where searchParams.get gives null
CodeNo(n) == [k |-> "code", n |-> n]
AccessDenied == [k |-> "access_denied", n |-> 0]
HttpRequest(method, path, code, state, error) ==
    [method |-> method, path |-> path, code |-> code, state |-> state, error |-> error]
NoHttpRequest == HttpRequest("", "", Undefined, Undefined, Undefined)
\* The requests that reach the callback server: a GET to /callback with any
\* parameters, what would be a valid callback sent with another method, and
\* what would be a valid callback sent to another path
Requests ==
    {HttpRequest("GET", "/callback", c, s, e) :
        c \in {Undefined, EmptyString, CodeNo(1), CodeNo(2)},
        s \in {Undefined} \cup RandomStates,
        e \in {Undefined, AccessDenied}}
    \cup {HttpRequest("POST", "/callback", CodeNo(1), s, Undefined) : s \in RandomStates}
    \cup {HttpRequest("GET", "/favicon.ico", CodeNo(1), s, Undefined) : s \in RandomStates}

\* One tick of the clock while a flow runs
FlowTickMs == CALLBACK_TIMEOUT_MS

\* The response carries a newly issued access token
Issues(resp) == resp.kind = "http" /\ ~Falsy(resp.access_token)
\* The response carries a newly issued refresh token
Rotates(resp) == resp.kind = "http" /\ ~Falsy(resp.refresh_token)

-----------------------------------------------------------------------------
(* smtp-client.ts *)

\* new EmailMCPError(..., 'AUTH_ERROR', ...), new EmailMCPError(..., 'MISSING_PARAM', ...),
\* and the rejection of transport.sendMail
NoMailError == [code |-> "none"]
AuthError == [code |-> "AUTH_ERROR"]
MissingParam == [code |-> "MISSING_PARAM"]
SendMailRejected == [code |-> "sendMail rejected"]

\* An AccountConfig, as far as smtp-client.ts reads it
Account(email, authType, password, accessToken) ==
    [email |-> email, authType |-> authType, password |-> password,
     accessToken |-> accessToken]
NoAccount == Account(<<>>, "undefined", Undefined, Undefined)

\* createSmtpTransport(account): XOAUTH2 with the access token of the account
\* when it is an OAuth account that has one, user and password otherwise
NoTransport == [created |-> FALSE]
createSmtpTransport(account) ==
    [created |-> TRUE,
     auth |-> IF account.authType = "oauth" /\ ~Falsy(account.accessToken)
              THEN [type |-> "OAuth2", user |-> account.email,
                    accessToken |-> account.accessToken, pass |-> Undefined]
              ELSE [type |-> "login", user |-> account.email,
                    accessToken |-> Undefined, pass |-> account.password]]

\* Mutant of NeedsFreshAuth: the token is refreshed for every account
NeedsFreshAuth_Always(account) == TRUE

\* withFreshAuth: whether ensureFreshToken is called for the account, and the
\* account it returns once the token is there
NeedsFreshAuth(account) == account.authType = "oauth"
FreshAccount(account, freshToken) == [account EXCEPT !.accessToken = freshToken]

\* No operation in progress.  ensured is how the ensureFreshToken call ended,
\* sendMailCalls the number of calls of transport.sendMail
IdleMail ==
    [pc |-> "idle", op |-> "none", account |-> NoAccount, in_reply_to |-> Undefined,
     ensureCalls |-> 0, ensured |-> "none", token |-> Undefined, call |-> 0,
     transport |-> NoTransport, sendMailCalls |-> 0, closed |-> FALSE,
     err |-> NoMailError, success |-> FALSE]

-----------------------------------------------------------------------------
(* State machine *)

IdleCall ==
    [pc |-> "idle", email |-> <<>>, tokens |-> NoTokens, nreq |-> 0,
     request |-> NoRequest, resp |-> NoResponse]

\* lastOp after a step of `op`; `changed` tells whether the step left another
\* accounts directory than it found
Event(op, email, changed) ==
    [op |-> op, email |-> email, outcome |-> "none", result |-> Undefined,
     err |-> NoError, tokens |-> NoTokens, resp |-> NoResponse, nreq |-> 0,
     nwrites |-> 0, flag |-> FALSE, changed |-> changed, config |-> NoClientConfig]

\* A slot of runOAuthFlow before its call. server is the callback server of
\* waitForCallback, wait the promise it returns, closes the number of times
\* close was called on the server
IdleFlow ==
    [pc |-> "idle", email |-> <<>>, clientConfig |-> NoClientConfig, port |-> NoPort,
     state |-> Undefined, verifier |-> Undefined, url |-> NoUrl,
     server |-> "none", wait |-> "none", code |-> Undefined, closes |-> 0,
     timer |-> "none", deadline |-> 0, request |-> NoRequest, err |-> NoError]

\* lastOp after a step of an authorization flow
FlowEvent(op, f) ==
    [op |-> op, flow |-> f, email |-> <<>>, req |-> NoHttpRequest,
     answer |-> CallbackAnswer(0, "", "none", NoError, Undefined),
     settled |-> "none", threw |-> NoError, returned |-> FALSE, closeCalls |-> 0,
     nreq |-> 0, nwrites |-> 0, resp |-> NoResponse, changed |-> FALSE,
     result |-> NoTokens]

Init ==
    /\ now = 0
    /\ files = [f \in FileNames |-> NoFile]
    /\ clientFile = NoFile
    /\ calls = [c \in Calls |-> IdleCall]
    /\ endpoint = [issued |-> 0, latestRT |-> RefreshTokenNo(0), allRotated |-> TRUE]
    /\ lastOp = Event("none", <<>>, FALSE)
    /\ flows = [f \in Flows |-> IdleFlow]
    /\ ports = [p \in Ports |-> FreePort]
    /\ mail = IdleMail

InFlight(c) == calls[c].pc \in {"fetching", "responded"}

\* Time passes
Tick ==
    /\ now < MaxTicks * TickMs
    /\ now' = now + TickMs
    /\ lastOp' = Event("none", <<>>, FALSE)
    /\ UNCHANGED <<files, clientFile, calls, endpoint, flows, ports, mail>>

\* Mutant of EnsureFreshTokenCall: single flight, a call that finds a refresh
\* of the account in progress sends no request of its own
EnsureFreshTokenCall_SingleFlight(c, email) ==
    /\ calls[c].pc = "idle"
    /\ \A d \in Calls : calls[d].pc = "idle" => c <= d
    /\ LET tokens == loadTokens(files, email)
           ev == [Event("ensureFreshToken", email, FALSE) EXCEPT !.tokens = tokens]
       IN IF tokens = NoTokens
          THEN /\ lastOp' = [ev EXCEPT !.outcome = "thrown", !.err = NoTokensFound]
               /\ calls' = calls
          ELSE IF StillValid(tokens, now)
          THEN /\ lastOp' = [ev EXCEPT !.outcome = "returned", !.result = tokens.accessToken]
               /\ calls' = calls
          ELSE IF RefreshPrecheck(tokens, clientFile) # NoError
          THEN /\ lastOp' = [ev EXCEPT !.outcome = "thrown",
                                       !.err = RefreshPrecheck(tokens, clientFile)]
               /\ calls' = calls
          ELSE IF \E d \in Calls : InFlight(d) /\ calls[d].email = email
          THEN /\ lastOp' = [ev EXCEPT !.outcome = "awaiting"]
               /\ calls' = calls
          ELSE /\ lastOp' = [ev EXCEPT !.outcome = "awaiting", !.nreq = 1]
               /\ calls' = [calls EXCEPT ![c] =
                    [pc |-> "fetching", email |-> email, tokens |-> tokens, nreq |-> 1,
                     request |-> RefreshRequest(tokens, clientFile), resp |-> NoResponse]]
    /\ UNCHANGED <<now, files, clientFile, endpoint, flows, ports, mail>>

\* ensureFreshToken(email) up to its return, its throw or the await of fetch.
\* Invocations are interchangeable: a new one takes the lowest free slot.
ensureFreshTokenBegin(c, email) ==
    /\ calls[c].pc = "idle"
    /\ \A d \in Calls : calls[d].pc = "idle" => c <= d
    /\ LET tokens == loadTokens(files, email)
           ev == [Event("ensureFreshToken", email, FALSE) EXCEPT !.tokens = tokens]
       IN IF tokens = NoTokens
          THEN /\ lastOp' = [ev EXCEPT !.outcome = "thrown", !.err = NoTokensFound]
               /\ calls' = calls
          ELSE IF StillValid(tokens, now)
          THEN /\ lastOp' = [ev EXCEPT !.outcome = "returned", !.result = tokens.accessToken]
               /\ calls' = calls
          ELSE IF RefreshPrecheck(tokens, clientFile) # NoError
          THEN /\ lastOp' = [ev EXCEPT !.outcome = "thrown",
                                       !.err = RefreshPrecheck(tokens, clientFile)]
               /\ calls' = calls
          ELSE /\ lastOp' = [ev EXCEPT !.outcome = "awaiting", !.nreq = 1]
               /\ calls' = [calls EXCEPT ![c] =
                    [pc |-> "fetching", email |-> email, tokens |-> tokens, nreq |-> 1,
                     request |-> RefreshRequest(tokens, clientFile), resp |-> NoResponse]]
    /\ UNCHANGED <<now, files, clientFile, endpoint, flows, ports>>

\* ensureFreshToken(email) called on its own
EnsureFreshTokenCall(c, email) ==
    /\ ensureFreshTokenBegin(c, email)
    /\ UNCHANGED mail

\* The token endpoint answers the refresh grant of call c
TokenEndpointRespond(c) ==
    /\ calls[c].pc = "fetching"
    /\ \E resp \in Responses(endpoint.issued) :
        /\ calls' = [calls EXCEPT ![c].pc = "responded", ![c].resp = resp,
                                  ![c].request = NoRequest]
        /\ endpoint' =
            IF Issues(resp)
            THEN [issued |-> endpoint.issued + 1,
                  latestRT |-> IF Rotates(resp) THEN resp.refresh_token
                               ELSE endpoint.latestRT,
                  allRotated |-> endpoint.allRotated /\ Rotates(resp)]
            ELSE endpoint
    /\ lastOp' = Event("none", <<>>, FALSE)
    /\ UNCHANGED <<now, files, clientFile, flows, ports, mail>>

\* ensureFreshToken after the await: throw, or save the updated record and return
ensureFreshTokenEnd(c) ==
    /\ calls[c].pc = "responded"
    /\ LET refreshed == RefreshOutcome(calls[c].resp)
           ev == [Event("ensureFreshToken", calls[c].email, files' # files) EXCEPT
                    !.tokens = calls[c].tokens, !.resp = calls[c].resp,
                    !.nreq = calls[c].nreq]
       IN IF refreshed.err # NoError
          THEN /\ files' = files
               /\ lastOp' = [ev EXCEPT !.outcome = "thrown", !.err = refreshed.err]
          ELSE /\ \E rnd \in SaveDraws :
                    files' = saveTokens(files, UpdatedTokens(calls[c].tokens, refreshed, now),
                                        now, rnd)
               /\ lastOp' = [ev EXCEPT !.outcome = "returned", !.nwrites = 1,
                                       !.result = refreshed.accessToken]
    /\ calls' = [calls EXCEPT ![c] = IdleCall]
    /\ UNCHANGED <<now, clientFile, endpoint, flows, ports>>

\* ensureFreshToken called on its own goes on after the await
EnsureFreshTokenResume(c) ==
    /\ ensureFreshTokenEnd(c)
    /\ UNCHANGED mail

\* isTokenExpired(email)
IsTokenExpiredCall(email) ==
    /\ lastOp' = [Event("isTokenExpired", email, FALSE) EXCEPT
                    !.flag = isTokenExpired(files, email, now)]
    /\ UNCHANGED <<now, files, clientFile, calls, endpoint, flows, ports, mail>>

\* saveTokens(tokens), called directly
SaveTokensCall(tokens) ==
    /\ \E rnd \in SaveDraws : files' = saveTokens(files, tokens, now, rnd)
    /\ lastOp' = [Event("saveTokens", tokens.email, files' # files) EXCEPT
                    !.nwrites = 1, !.tokens = tokens]
    /\ UNCHANGED <<now, clientFile, calls, endpoint, flows, ports, mail>>

\* deleteTokens(email)
DeleteTokensCall(email) ==
    /\ files' = IF deleteTokensResult(files, email) THEN deleteTokens(files, email) ELSE files
    /\ lastOp' = [Event("deleteTokens", email, files' # files) EXCEPT
                    !.flag = deleteTokensResult(files, email)]
    /\ UNCHANGED <<now, clientFile, calls, endpoint, flows, ports, mail>>

\* saveClientConfig(config)
SaveClientConfigCall(config) ==
    /\ \E salt \in Salts, iv \in Ivs :
            clientFile' = saveClientConfig(clientFile, config, salt, iv)
    /\ lastOp' = [Event("saveClientConfig", <<>>, clientFile' # clientFile) EXCEPT
                    !.nwrites = 1, !.config = config]
    /\ UNCHANGED <<now, files, calls, endpoint, flows, ports, mail>>

\* The account file is damaged, or replaced by one written under another
\* machine identity (a configuration directory copied from elsewhere)
ForeignFile ==
    [kind |-> "json",
     email |-> GmailUser,
     provider |-> "google",
     accessToken |-> EncryptWith(ForeignPassphrase, AccessTokenNo(0), 0, 0),
     refreshToken |-> EncryptWith(ForeignPassphrase, RefreshTokenNo(0), 0, 0),
     tokenExpiry |-> 2 * REFRESH_BUFFER_MS,
     scopes |-> GOOGLE_PROVIDER.scopes,
     createdAt |-> toISOString(0),
     updatedAt |-> toISOString(0)]
ExternalFileChange(f) ==
    /\ files[f].kind = "json"
    /\ files' \in {[files EXCEPT ![f] = GarbageFile], [files EXCEPT ![f] = ForeignFile]}
    /\ files' # files
    /\ lastOp' = Event("none", <<>>, FALSE)
    /\ UNCHANGED <<now, clientFile, calls, endpoint, flows, ports, mail>>

\* One invocation of ensureFreshToken at a time, suspended on its fetch while
\* the clock, the store operations and the token endpoint go on
FirstCall == {c \in Calls : \A d \in Calls : c <= d}

Next ==
    \/ Tick
    \/ \E c \in FirstCall, e \in Emails : EnsureFreshTokenCall(c, e)
    \/ \E c \in FirstCall : TokenEndpointRespond(c)
    \/ \E c \in FirstCall : EnsureFreshTokenResume(c)
    \/ \E e \in Emails : IsTokenExpiredCall(e)
    \/ \E tokens \in InputTokens : SaveTokensCall(tokens)
    \/ \E e \in Emails : DeleteTokensCall(e)
    \/ \E config \in InputClientConfigs : SaveClientConfigCall(config)
    \/ \E f \in FileNames : ExternalFileChange(f)

Spec == Init /\ [][Next]_vars

-----------------------------------------------------------------------------
(* Overlapping invocations of ensureFreshToken for one account *)

\* The store after saveClientConfig and saveTokens for the Gmail account
InitRace ==
    /\ now = 0
    /\ \E rnd \in SaveDraws :
         files = saveTokens([f \in FileNames |-> NoFile],
                            InputRecord(GmailUser, RefreshTokenNo(0), 2 * REFRESH_BUFFER_MS),
                            0, rnd)
    /\ \E config \in InputClientConfigs, salt \in Salts, iv \in Ivs :
         clientFile = saveClientConfig(NoFile, config, salt, iv)
    /\ calls = [c \in Calls |-> IdleCall]
    /\ endpoint = [issued |-> 0, latestRT |-> RefreshTokenNo(0), allRotated |-> TRUE]
    /\ lastOp = Event("none", <<>>, FALSE)
    /\ flows = [f \in Flows |-> IdleFlow]
    /\ ports = [p \in Ports |-> FreePort]
    /\ mail = IdleMail

NextRace ==
    \/ Tick
    \/ \E c \in Calls : EnsureFreshTokenCall(c, GmailUser)
    \/ \E c \in Calls : TokenEndpointRespond(c)
    \/ \E c \in Calls : EnsureFreshTokenResume(c)

SpecRace == InitRace /\ [][NextRace]_vars

-----------------------------------------------------------------------------
(* The authorization flow: runOAuthFlow and the callback server *)

\* Mutant of CloseServer: close is counted but the server goes on listening
CloseServer_StaysOpen(fl) == [fl EXCEPT !.closes = fl.closes + 1]

\* server.close() on the callback server of flow f: the record and the ports afterwards
CloseServer(fl) ==
    [fl EXCEPT !.closes = fl.closes + 1,
               !.server = IF fl.server = "listening" THEN "closed" ELSE fl.server]
PortsAfterClose(fl, f) ==
    IF fl.server = "listening" THEN [ports EXCEPT ![fl.port] = FreePort] ELSE ports

\* runOAuthFlow(email) up to its throw or the await of findAvailablePort.
\* Invocations are interchangeable: a new one takes the lowest free slot.
RunOAuthFlowCall(f, email) ==
    /\ flows[f].pc = "idle"
    /\ \A g \in Flows : flows[g].pc = "idle" => f <= g
    /\ LET provider == detectProvider(email)
           clientConfig == IF provider = NoProvider THEN NoClientConfig
                           ELSE loadClientConfig(clientFile, provider.name)
           ev == [FlowEvent("runOAuthFlow", f) EXCEPT !.email = email]
       IN IF provider = NoProvider
          THEN /\ flows' = [flows EXCEPT ![f].pc = "thrown", ![f].email = email,
                                         ![f].err = ProviderNotSupported]
               /\ lastOp' = [ev EXCEPT !.threw = ProviderNotSupported]
          ELSE IF clientConfig = NoClientConfig
          THEN /\ flows' = [flows EXCEPT ![f].pc = "thrown", ![f].email = email,
                                         ![f].err = ClientNotConfigured]
               /\ lastOp' = [ev EXCEPT !.threw = ClientNotConfigured]
          ELSE /\ flows' = [flows EXCEPT ![f].pc = "findingPort", ![f].email = email,
                                         ![f].clientConfig = clientConfig]
               /\ lastOp' = ev
    /\ UNCHANGED <<now, files, clientFile, calls, endpoint, ports, mail>>

\* findAvailablePort settles: the probe server was given a free port and has
\* been closed again, or no port could be bound.  runOAuthFlow goes on to
\* build and print the authorization URL and awaits the opening of the browser.
FindAvailablePortDone(f) ==
    /\ flows[f].pc = "findingPort"
    /\ LET fl == flows[f]
           ev == [FlowEvent("findAvailablePort", f) EXCEPT !.email = fl.email]
       IN IF \A p \in Ports : ports[p] # FreePort
          THEN /\ flows' = [flows EXCEPT ![f].pc = "thrown", ![f].err = PortAllocationFailed]
               /\ lastOp' = [ev EXCEPT !.threw = PortAllocationFailed]
          ELSE \E port \in Ports, rnd \in RandomVerifiers, state \in RandomStates :
               /\ ports[port] = FreePort
               /\ flows' = [flows EXCEPT
                    ![f].pc = "opening",
                    ![f].port = port,
                    ![f].verifier = generatePKCE(rnd).verifier,
                    ![f].state = state,
                    ![f].url = buildAuthUrl(detectProvider(fl.email), fl.clientConfig,
                                            RedirectUri(port), generatePKCE(rnd).challenge,
                                            state)]
               /\ lastOp' = ev
    /\ UNCHANGED <<now, files, clientFile, calls, endpoint, ports, mail>>

\* The opening of the browser settles (a failure is caught); runOAuthFlow calls
\* waitForCallback, which creates the server, binds it, sets the timer, and
\* rejects on the server's 'error' event when the port cannot be bound.
WaitForCallbackStart(f) ==
    /\ flows[f].pc = "opening"
    /\ LET fl == flows[f]
           ev == [FlowEvent("waitForCallback", f) EXCEPT !.email = fl.email]
       IN IF ports[fl.port] = FreePort
          THEN /\ flows' = [flows EXCEPT ![f].pc = "waiting", ![f].server = "listening",
                                         ![f].wait = "pending", ![f].timer = "armed",
                                         ![f].deadline = now + CALLBACK_TIMEOUT_MS]
               /\ ports' = [ports EXCEPT ![fl.port] = BoundByFlow(f)]
               /\ lastOp' = ev
          ELSE /\ flows' = [flows EXCEPT ![f].pc = "thrown", ![f].server = "failed",
                                         ![f].wait = "rejected", ![f].timer = "armed",
                                         ![f].deadline = now + CALLBACK_TIMEOUT_MS,
                                         ![f].err = CallbackServerFailed]
               /\ ports' = ports
               /\ lastOp' = [ev EXCEPT !.settled = "rejected", !.threw = CallbackServerFailed]
    /\ UNCHANGED <<now, files, clientFile, calls, endpoint, mail>>

\* The callback server of flow f handles a request.  When the handler settles
\* the wait, runOAuthFlow goes on at once: it throws the rejection, or calls
\* exchangeCode, which sends the code to the token endpoint.
HandleRequest(f, req) ==
    /\ flows[f].server = "listening"
    /\ LET fl == flows[f]
           answer == CallbackHandler(req, fl.state)
           settles == fl.wait = "pending" /\ answer.settle # "none"
           ev == [FlowEvent("request", f) EXCEPT !.email = fl.email, !.req = req,
                                                 !.answer = answer]
       IN IF settles /\ answer.settle = "resolve"
          THEN /\ flows' = [flows EXCEPT
                    ![f].wait = "resolved", ![f].code = answer.code,
                    ![f].pc = "exchanging",
                    ![f].request = ExchangeRequest(detectProvider(fl.email), fl.clientConfig,
                                                   answer.code, RedirectUri(fl.port),
                                                   fl.verifier)]
               /\ lastOp' = [ev EXCEPT !.settled = "resolved", !.nreq = 1]
          ELSE IF settles
          THEN /\ flows' = [flows EXCEPT ![f].wait = "rejected", ![f].pc = "thrown",
                                         ![f].err = answer.err]
               /\ lastOp' = [ev EXCEPT !.settled = "rejected", !.threw = answer.err]
          ELSE /\ flows' = flows
               /\ lastOp' = ev
    /\ UNCHANGED <<now, files, clientFile, calls, endpoint, ports, mail>>

\* Mutant of CallbackTimerFires: the timer is cleared once the wait is settled
CallbackTimerFires_OnlyWhilePending(f) ==
    /\ flows[f].timer = "armed"
    /\ now >= flows[f].deadline
    /\ flows[f].wait = "pending"
    /\ flows' = [flows EXCEPT ![f] =
            [CloseServer(flows[f]) EXCEPT !.timer = "fired", !.wait = "rejected",
                                          !.pc = "thrown", !.err = CallbackTimeout]]
    /\ lastOp' = [FlowEvent("timer", f) EXCEPT !.email = flows[f].email, !.closeCalls = 1,
                                               !.settled = "rejected",
                                               !.threw = CallbackTimeout]
    /\ ports' = PortsAfterClose(flows[f], f)
    /\ UNCHANGED <<now, files, clientFile, calls, endpoint, mail>>

\* The timer of waitForCallback fires: server.close(), then reject, which
\* makes runOAuthFlow throw when the wait was still pending
CallbackTimerFires(f) ==
    /\ flows[f].timer = "armed"
    /\ now >= flows[f].deadline
    /\ LET fl == flows[f]
           closed == [CloseServer(fl) EXCEPT !.timer = "fired"]
           ev == [FlowEvent("timer", f) EXCEPT !.email = fl.email, !.closeCalls = 1]
       IN IF fl.wait = "pending"
          THEN /\ flows' = [flows EXCEPT ![f] =
                    [closed EXCEPT !.wait = "rejected", !.pc = "thrown",
                                   !.err = CallbackTimeout]]
               /\ lastOp' = [ev EXCEPT !.settled = "rejected", !.threw = CallbackTimeout]
          ELSE /\ flows' = [flows EXCEPT ![f] = closed]
               /\ lastOp' = ev
    /\ ports' = PortsAfterClose(flows[f], f)
    /\ UNCHANGED <<now, files, clientFile, calls, endpoint, mail>>

\* Mutant of FlowTokens: expiresIn taken for milliseconds
FlowTokens_SecondsExpiry(fl, tokens, t) ==
    [kind |-> "tokens",
     email |-> fl.email,
     provider |-> detectProvider(fl.email).name,
     accessToken |-> tokens.accessToken,
     refreshToken |-> tokens.refreshToken,
     tokenExpiry |-> t + tokens.expiresIn,
     scopes |-> detectProvider(fl.email).scopes,
     createdAt |-> toISOString(t),
     updatedAt |-> toISOString(t)]

\* The record runOAuthFlow saves
FlowTokens(fl, tokens, t) ==
    [kind |-> "tokens",
     email |-> fl.email,
     provider |-> detectProvider(fl.email).name,
     accessToken |-> tokens.accessToken,
     refreshToken |-> tokens.refreshToken,
     tokenExpiry |-> t + tokens.expiresIn * 1000,
     scopes |-> detectProvider(fl.email).scopes,
     createdAt |-> toISOString(t),
     updatedAt |-> toISOString(t)]

\* The OAuthFlowResult runOAuthFlow returns
FlowResult(fl, tokens, t) ==
    [kind |-> "result",
     email |-> fl.email,
     provider |-> detectProvider(fl.email).name,
     accessToken |-> tokens.accessToken,
     refreshToken |-> tokens.refreshToken,
     tokenExpiry |-> t + tokens.expiresIn * 1000,
     scopes |-> detectProvider(fl.email).scopes]

\* The token endpoint answers the exchange of flow f: exchangeCode throws and
\* so does runOAuthFlow, or runOAuthFlow closes the server, saves the record
\* and returns
ExchangeRespond(f) ==
    /\ flows[f].pc = "exchanging"
    /\ \E resp \in Responses(endpoint.issued) :
        LET fl == flows[f]
            tokens == ExchangeOutcome(resp)
            ev == [FlowEvent("exchange", f) EXCEPT !.email = fl.email, !.resp = resp,
                                                   !.changed = files' # files]
        IN /\ endpoint' =
                IF Issues(resp)
                THEN [issued |-> endpoint.issued + 1,
                      latestRT |-> IF Rotates(resp) THEN resp.refresh_token
                                   ELSE endpoint.latestRT,
                      allRotated |-> endpoint.allRotated /\ Rotates(resp)]
                ELSE endpoint
           /\ IF tokens.err # NoError
              THEN /\ files' = files
                   /\ ports' = ports
                   /\ flows' = [flows EXCEPT ![f].pc = "thrown", ![f].err = tokens.err,
                                             ![f].request = NoRequest]
                   /\ lastOp' = [ev EXCEPT !.threw = tokens.err]
              ELSE /\ \E rnd \in SaveDraws :
                        files' = saveTokens(files, FlowTokens(fl, tokens, now), now, rnd)
                   /\ ports' = PortsAfterClose(fl, f)
                   /\ flows' = [flows EXCEPT ![f] =
                        [CloseServer(fl) EXCEPT !.pc = "returned", !.request = NoRequest]]
                   /\ lastOp' = [ev EXCEPT !.returned = TRUE, !.closeCalls = 1,
                                           !.nwrites = 1,
                                           !.result = FlowResult(fl, tokens, now)]
    /\ UNCHANGED <<now, clientFile, calls, mail>>

\* Another process binds a free loopback port
OtherProcessBinds(p) ==
    /\ ports[p] = FreePort
    /\ ports' = [ports EXCEPT ![p] = BoundByOther]
    /\ lastOp' = FlowEvent("none", 0)
    /\ UNCHANGED <<now, files, clientFile, calls, endpoint, flows, mail>>

\* Time passes while a flow runs
FlowTick ==
    /\ now < MaxFlowTicks * FlowTickMs
    /\ now' = now + FlowTickMs
    /\ lastOp' = FlowEvent("none", 0)
    /\ UNCHANGED <<files, clientFile, calls, endpoint, flows, ports, mail>>

\* The store before the flow: empty or holding a record of the Gmail account;
\* no client configuration file, an unparseable one, or one with the client
\* credential of Google
InitFlow ==
    /\ now = 0
    /\ \E rnd \in SaveDraws :
         files \in {[f \in FileNames |-> NoFile],
                    saveTokens([f \in FileNames |-> NoFile],
                               InputRecord(GmailUser, RefreshTokenNo(0), 2 * REFRESH_BUFFER_MS),
                               0, rnd)}
    /\ \E config \in InputClientConfigs, salt \in Salts, iv \in Ivs :
         clientFile \in {NoFile, GarbageFile, saveClientConfig(NoFile, config, salt, iv)}
    /\ calls = [c \in Calls |-> IdleCall]
    /\ endpoint = [issued |-> 0, latestRT |-> RefreshTokenNo(0), allRotated |-> TRUE]
    /\ lastOp = FlowEvent("none", 0)
    /\ flows = [f \in Flows |-> IdleFlow]
    /\ ports = [p \in Ports |-> FreePort]
    /\ mail = IdleMail

\* One authorization flow, with the requests, the timer, the token endpoint,
\* the clock and the other users of the loopback ports
FirstFlow == {f \in Flows : \A g \in Flows : f <= g}

NextFlow ==
    \/ FlowTick
    \/ \E p \in Ports : OtherProcessBinds(p)
    \/ \E f \in FirstFlow, e \in FlowEmails : RunOAuthFlowCall(f, e)
    \/ \E f \in FirstFlow : FindAvailablePortDone(f)
    \/ \E f \in FirstFlow : WaitForCallbackStart(f)
    \/ \E f \in FirstFlow, req \in Requests : HandleRequest(f, req)
    \/ \E f \in FirstFlow : CallbackTimerFires(f)
    \/ \E f \in FirstFlow : ExchangeRespond(f)

SpecFlow == InitFlow /\ [][NextFlow]_vars

-----------------------------------------------------------------------------
(* One authorization flow in a process that stays alive: the clock keeps
   running while a timer of waitForCallback is armed, and an armed timer whose
   delay has passed fires, since setTimeout is never cleared *)

\* Time passes: as FlowTick, and also for as long as an armed timer has not
\* reached its deadline
ClockRuns ==
    /\ \/ now < MaxFlowTicks * FlowTickMs
       \/ \E f \in Flows : flows[f].timer = "armed" /\ now < flows[f].deadline
    /\ now' = now + FlowTickMs
    /\ lastOp' = FlowEvent("none", 0)
    /\ UNCHANGED <<files, clientFile, calls, endpoint, flows, ports, mail>>

\* The flow starts from an empty store and the client credential of Google
InitFlowLive ==
    /\ InitFlow
    /\ files = [f \in FileNames |-> NoFile]
    /\ clientFile # NoFile
    /\ loadClientConfig(clientFile, "google") # NoClientConfig

NextFlowLive ==
    \/ ClockRuns
    \/ \E p \in Ports : OtherProcessBinds(p)
    \/ \E f \in FirstFlow, e \in FlowEmails : RunOAuthFlowCall(f, e)
    \/ \E f \in FirstFlow : FindAvailablePortDone(f)
    \/ \E f \in FirstFlow : WaitForCallbackStart(f)
    \/ \E f \in FirstFlow, req \in Requests : HandleRequest(f, req)
    \/ \E f \in FirstFlow : CallbackTimerFires(f)
    \/ \E f \in FirstFlow : ExchangeRespond(f)

SpecFlowLive ==
    /\ InitFlowLive
    /\ [][NextFlowLive]_vars
    /\ WF_vars(ClockRuns)
    /\ \A f \in FirstFlow : WF_vars(CallbackTimerFires(f))

-----------------------------------------------------------------------------
(* Both grants against one store: an authorization flow and ensureFreshToken *)

\* The callbacks the provider redirects to: a code with either state
ProviderCallbacks ==
    {HttpRequest("GET", "/callback", CodeNo(1), s, Undefined) : s \in RandomStates}

\* The client credential of Google is configured; the store is empty or holds
\* a record of the Gmail account
InitGrants ==
    /\ now = 0
    /\ \E rnd \in SaveDraws :
         files \in {[f \in FileNames |-> NoFile],
                    saveTokens([f \in FileNames |-> NoFile],
                               InputRecord(GmailUser, RefreshTokenNo(0), 2 * REFRESH_BUFFER_MS),
                               0, rnd)}
    /\ \E config \in InputClientConfigs, salt \in Salts, iv \in Ivs :
         clientFile = saveClientConfig(NoFile, config, salt, iv)
    /\ calls = [c \in Calls |-> IdleCall]
    /\ endpoint = [issued |-> 0, latestRT |-> RefreshTokenNo(0), allRotated |-> TRUE]
    /\ lastOp = Event("none", <<>>, FALSE)
    /\ flows = [f \in Flows |-> IdleFlow]
    /\ ports = [p \in Ports |-> FreePort]
    /\ mail = IdleMail

NextGrants ==
    \/ Tick
    \/ \E f \in FirstFlow : RunOAuthFlowCall(f, GmailUser)
    \/ \E f \in FirstFlow : FindAvailablePortDone(f)
    \/ \E f \in FirstFlow : WaitForCallbackStart(f)
    \/ \E f \in FirstFlow, req \in ProviderCallbacks : HandleRequest(f, req)
    \/ \E f \in FirstFlow : ExchangeRespond(f)
    \/ \E c \in FirstCall : EnsureFreshTokenCall(c, GmailUser)
    \/ \E c \in FirstCall : TokenEndpointRespond(c)
    \/ \E c \in FirstCall : EnsureFreshTokenResume(c)

SpecGrants == InitGrants /\ [][NextGrants]_vars

-----------------------------------------------------------------------------
(* The store called directly: saveTokens, loadTokens, deleteTokens,
   saveClientConfig and loadClientConfig, over files that may be damaged *)

\* A@gmail.com: the address of GmailUser in another letter case
UpperUser == <<"A","@","g","m","a","i","l",".","c","o","m">>
StoreEmails == {GmailUser, UpperUser, OtherUser, OutlookUser}
StoreFileNames == {emailToFilename(e) : e \in StoreEmails}

\* The records saveTokens is given: tokens that are ordinary text, empty
\* strings, or a string with an unpaired surrogate
StoreRecord(email, provider, accessToken, refreshToken) ==
    [kind |-> "tokens",
     email |-> email,
     provider |-> provider.name,
     accessToken |-> accessToken,
     refreshToken |-> refreshToken,
     tokenExpiry |-> 2 * REFRESH_BUFFER_MS,
     scopes |-> provider.scopes,
     createdAt |-> toISOString(0),
     updatedAt |-> toISOString(0)]
StoreTokens ==
    {StoreRecord(GmailUser, GOOGLE_PROVIDER, AccessTokenNo(0), RefreshTokenNo(0)),
     StoreRecord(UpperUser, GOOGLE_PROVIDER, AccessTokenNo(1), RefreshTokenNo(1)),
     StoreRecord(OtherUser, GOOGLE_PROVIDER, EmptyString, EmptyString),
     StoreRecord(OutlookUser, MICROSOFT_PROVIDER, AccessTokenNo(0), IllFormedNo(0))}

\* The client credentials saveClientConfig is given
ClientSecretNo(n) == [k |-> "CS", n |-> n]
StoreClientConfigs ==
    {[provider |-> "google", clientId |-> "client-id", clientSecret |-> ClientSecretNo(0)],
     [provider |-> "google", clientId |-> "client-id-2", clientSecret |-> ClientSecretNo(1)],
     [provider |-> "microsoft", clientId |-> "client-id", clientSecret |-> ClientSecretNo(0)]}

\* The strings encrypt is given
StoreStrings ==
    {EmptyString, AccessTokenNo(0), RefreshTokenNo(0), ClientSecretNo(0),
     IllFormedNo(0), ReplacedNo(0)}

\* A secret field cut short: fewer than the four parts decrypt asks for
TruncatedSecret == [k |-> "encrypted", n |-> 0, parts |-> <<0, 0>>]

\* loadTokens(email)
LoadTokensCall(email) ==
    /\ lastOp' = [Event("loadTokens", email, FALSE) EXCEPT
                    !.outcome = "returned", !.tokens = loadTokens(files, email)]
    /\ UNCHANGED <<now, files, clientFile, calls, endpoint, flows, ports, mail>>

\* loadClientConfig(provider)
LoadClientConfigCall(provider) ==
    /\ lastOp' = [Event("loadClientConfig", <<>>, FALSE) EXCEPT
                    !.outcome = "returned", !.result = [k |-> provider, n |-> 0],
                    !.config = loadClientConfig(clientFile, provider)]
    /\ UNCHANGED <<now, files, clientFile, calls, endpoint, flows, ports, mail>>

\* A secret field of an account file is cut short
TruncateTokenSecret(f) ==
    /\ files[f].kind = "json"
    /\ files' = [files EXCEPT ![f].refreshToken = TruncatedSecret]
    /\ files' # files
    /\ lastOp' = Event("none", <<>>, FALSE)
    /\ UNCHANGED <<now, clientFile, calls, endpoint, flows, ports, mail>>

\* The client credential file is damaged: it is no JSON any more, or the
\* secret of one entry is cut short or was written under another machine identity
DamageClientFile(p) ==
    /\ clientFile.kind = "json"
    /\ clientFile.configs[p].present
    /\ clientFile' \in
         {GarbageFile,
          [clientFile EXCEPT !.configs[p].clientSecret = TruncatedSecret],
          [clientFile EXCEPT !.configs[p].clientSecret =
                EncryptWith(ForeignPassphrase, ClientSecretNo(0), 0, 0)]}
    /\ clientFile' # clientFile
    /\ lastOp' = Event("none", <<>>, FALSE)
    /\ UNCHANGED <<now, files, calls, endpoint, flows, ports, mail>>

\* An empty configuration directory, some time after the epoch
InitStore ==
    /\ now = TickMs
    /\ files = [f \in StoreFileNames |-> NoFile]
    /\ clientFile = NoFile
    /\ calls = [c \in Calls |-> IdleCall]
    /\ endpoint = [issued |-> 0, latestRT |-> RefreshTokenNo(0), allRotated |-> TRUE]
    /\ lastOp = Event("none", <<>>, FALSE)
    /\ flows = [f \in Flows |-> IdleFlow]
    /\ ports = [p \in Ports |-> FreePort]
    /\ mail = IdleMail

NextStore ==
    \/ \E tokens \in StoreTokens : SaveTokensCall(tokens)
    \/ \E email \in StoreEmails : LoadTokensCall(email)
    \/ \E email \in StoreEmails : DeleteTokensCall(email)
    \/ \E config \in StoreClientConfigs : SaveClientConfigCall(config)
    \/ \E p \in ProviderNames : LoadClientConfigCall(p)
    \/ \E f \in StoreFileNames : ExternalFileChange(f)
    \/ \E f \in StoreFileNames : TruncateTokenSecret(f)
    \/ \E p \in ProviderNames : DamageClientFile(p)

SpecStore == InitStore /\ [][NextStore]_vars

-----------------------------------------------------------------------------
(* Two invocations of runOAuthFlow, for two accounts, that overlap *)

\* The client credentials of both providers are configured
InitConcurrentFlows ==
    /\ now = 0
    /\ files = [f \in FileNames |-> NoFile]
    /\ clientFile =
         saveClientConfig(
            saveClientConfig(NoFile,
                [provider |-> "google", clientId |-> "client-id",
                 clientSecret |-> ClientSecretNo(0)], 0, 0),
            [provider |-> "microsoft", clientId |-> "client-id",
             clientSecret |-> ClientSecretNo(0)], 0, 0)
    /\ calls = [c \in Calls |-> IdleCall]
    /\ endpoint = [issued |-> 0, latestRT |-> RefreshTokenNo(0), allRotated |-> TRUE]
    /\ lastOp = FlowEvent("none", 0)
    /\ flows = [f \in Flows |-> IdleFlow]
    /\ ports = [p \in Ports |-> FreePort]
    /\ mail = IdleMail

\* The provider redirects the browser of flow g to the redirect URI of g's
\* authorization URL, with a code and the state of that URL
ProviderRedirect(g) ==
    HttpRequest("GET", "/callback", CodeNo(g), flows[g].state, Undefined)

\* runOAuthFlow(email) for an account no other invocation was called for
RunOAuthFlowForAnotherAccount(f, email) ==
    /\ \A g \in Flows : flows[g].email # email
    /\ RunOAuthFlowCall(f, email)

\* The redirect of flow g arrives at the port of g's redirect URI, where the
\* callback server of flow h listens
RedirectArrives(g, h) ==
    /\ flows[g].url # NoUrl
    /\ ports[flows[g].port] = BoundByFlow(h)
    /\ HandleRequest(h, ProviderRedirect(g))

NextConcurrentFlows ==
    \/ \E f \in Flows, e \in {GmailUser, OutlookUser} : RunOAuthFlowForAnotherAccount(f, e)
    \/ \E f \in Flows : FindAvailablePortDone(f)
    \/ \E f \in Flows : WaitForCallbackStart(f)
    \/ \E g \in Flows, h \in Flows : RedirectArrives(g, h)

SpecConcurrentFlows == InitConcurrentFlows /\ [][NextConcurrentFlows]_vars

-----------------------------------------------------------------------------
(* Sending mail: sendNewEmail, replyToEmail and forwardEmail *)

MailOps == {"sendNewEmail", "replyToEmail", "forwardEmail"}
PasswordNo(n) == [k |-> "password", n |-> n]
MessageIdNo(n) == [k |-> "message-id", n |-> n]

\* The accounts mail is sent from: the Gmail account with OAuth, with and
\* without an access token left in the configuration, and with an app password
MailAccounts ==
    {Account(GmailUser, "oauth", Undefined, Undefined),
     Account(GmailUser, "oauth", Undefined, AccessTokenNo(0)),
     Account(GmailUser, "password", PasswordNo(0), Undefined),
     Account(GmailUser, "undefined", PasswordNo(0), Undefined)}

\* The operation goes on once withFreshAuth has its answer from
\* ensureFreshToken, whose outcome is in `ev`: the transport is created and
\* sendMail called, or the AUTH_ERROR is thrown
AfterWithFreshAuth(m, ev) ==
    IF ev.outcome = "returned"
    THEN [m EXCEPT !.pc = "sending", !.ensured = "returned", !.token = ev.result,
                   !.call = 0,
                   !.transport = createSmtpTransport(FreshAccount(m.account, ev.result)),
                   !.sendMailCalls = m.sendMailCalls + 1]
    ELSE IF ev.outcome = "thrown"
    THEN [m EXCEPT !.pc = "failed", !.ensured = "thrown", !.call = 0, !.err = AuthError]
    ELSE m

\* sendNewEmail, replyToEmail or forwardEmail is called, and runs up to its
\* throw or its first await that does not settle at once: that of fetch inside
\* ensureFreshToken, or that of transport.sendMail
MailCall(op, account, in_reply_to) ==
    /\ mail.pc = "idle"
    /\ LET m == [mail EXCEPT !.op = op, !.account = account, !.in_reply_to = in_reply_to]
       IN IF op = "replyToEmail" /\ Falsy(in_reply_to)
          THEN /\ mail' = [m EXCEPT !.pc = "failed", !.err = MissingParam]
               /\ UNCHANGED <<now, files, clientFile, calls, endpoint, lastOp, flows, ports>>
          ELSE IF ~NeedsFreshAuth(account)
          THEN /\ mail' = [m EXCEPT !.pc = "sending",
                                    !.transport = createSmtpTransport(account),
                                    !.sendMailCalls = 1]
               /\ UNCHANGED <<now, files, clientFile, calls, endpoint, lastOp, flows, ports>>
          ELSE \E c \in Calls :
               /\ ensureFreshTokenBegin(c, account.email)
               /\ mail' = AfterWithFreshAuth([m EXCEPT !.pc = "refreshing", !.call = c,
                                                       !.ensureCalls = 1], lastOp')

\* The refresh grant of the operation's ensureFreshToken call was answered:
\* ensureFreshToken returns or throws, and the operation goes on
MailResume ==
    /\ mail.pc = "refreshing"
    /\ ensureFreshTokenEnd(mail.call)
    /\ mail' = AfterWithFreshAuth(mail, lastOp')

\* transport.sendMail settles: the mail was accepted, or the server refused
\* (the authentication, the recipients); finally the transport is closed
SendMailSettles(accepted) ==
    /\ mail.pc = "sending"
    /\ mail' = IF accepted
               THEN [mail EXCEPT !.pc = "returned", !.closed = TRUE, !.success = TRUE]
               ELSE [mail EXCEPT !.pc = "failed", !.closed = TRUE, !.err = SendMailRejected]
    /\ UNCHANGED <<now, files, clientFile, calls, endpoint, lastOp, flows, ports>>

\* The store is empty or holds a record of the Gmail account; the client
\* credential of Google is configured
InitSend ==
    /\ now = 0
    /\ \E rnd \in SaveDraws :
         files \in {[f \in FileNames |-> NoFile],
                    saveTokens([f \in FileNames |-> NoFile],
                               InputRecord(GmailUser, RefreshTokenNo(0), 2 * REFRESH_BUFFER_MS),
                               0, rnd)}
    /\ \E config \in InputClientConfigs, salt \in Salts, iv \in Ivs :
         clientFile = saveClientConfig(NoFile, config, salt, iv)
    /\ calls = [c \in Calls |-> IdleCall]
    /\ endpoint = [issued |-> 0, latestRT |-> RefreshTokenNo(0), allRotated |-> TRUE]
    /\ lastOp = Event("none", <<>>, FALSE)
    /\ flows = [f \in Flows |-> IdleFlow]
    /\ ports = [p \in Ports |-> FreePort]
    /\ mail = IdleMail

NextSend ==
    \/ Tick
    \/ \E op \in MailOps, account \in MailAccounts,
          in_reply_to \in {Undefined, EmptyString, MessageIdNo(1)} :
            MailCall(op, account, in_reply_to)
    \/ \E c \in Calls : TokenEndpointRespond(c)
    \/ MailResume
    \/ \E accepted \in BOOLEAN : SendMailSettles(accepted)

SpecSend == InitSend /\ [][NextSend]_vars

-----------------------------------------------------------------------------
(* detectProvider and isOAuthSupported called on their own *)

\* The local parts and the domains of the addresses looked up: the domains of
\* the registry in either letter case, subdomains of them, domains that only
\* look alike, and the empty domain
LookupLocals == {<<"a">>, <<"B">>, <<"a",".","b">>}
LookupDomains ==
    {<<"g","m","a","i","l",".","c","o","m">>,
     <<"G","m","a","i","l",".","C","O","M">>,
     <<"g","o","o","g","l","e","m","a","i","l",".","c","o","m">>,
     <<"o","u","t","l","o","o","k",".","c","o","m">>,
     <<"h","o","t","m","a","i","l",".","c","o","m">>,
     <<"l","i","v","e",".","c","o","m">>,
     <<"L","I","V","E",".","c","o","m">>,
     <<"m","a","i","l",".","g","m","a","i","l",".","c","o","m">>,
     <<"x",".","l","i","v","e",".","c","o","m">>,
     <<"X",".","H","o","t","m","a","i","l",".","c","o","m">>,
     <<"n","o","t","g","m","a","i","l",".","c","o","m">>,
     <<"g","m","a","i","l",".","c","o","m",".","x",".","o","r","g">>,
     <<"x",".","o","r","g">>,
     <<>>,
     <<".","g","m","a","i","l",".","c","o","m">>,
     <<"c","o","m">>,
     <<"g","m","a","i","l",".","c","o">>,
     <<"l","i","v","e",".","c","o","m",".","g","m","a","i","l",".","c","o","m">>,
     <<"g","m","a","i","l",".","c","o","m",".","l","i","v","e",".","c","o","m">>}
\* Strings without '@' and with more than one
LookupOthers ==
    {<<"a">>,
     <<"g","m","a","i","l",".","c","o","m">>,
     <<>>,
     <<"a","@","b","@","g","m","a","i","l",".","c","o","m">>,
     <<"a","@","g","m","a","i","l",".","c","o","m","@","x",".","o","r","g">>}
LookupEmails == {l \o <<"@">> \o d : l \in LookupLocals, d \in LookupDomains} \cup LookupOthers

\* lastOp after a lookup
LookupEvent(op, email) ==
    [op |-> op, email |-> email, provider |-> detectProvider(email),
     flag |-> isOAuthSupported(email)]

DetectProviderCall(email) ==
    /\ lastOp' = LookupEvent("detectProvider", email)
    /\ UNCHANGED <<now, files, clientFile, calls, endpoint, flows, ports, mail>>

IsOAuthSupportedCall(email) ==
    /\ lastOp' = LookupEvent("isOAuthSupported", email)
    /\ UNCHANGED <<now, files, clientFile, calls, endpoint, flows, ports, mail>>

NextLookup ==
    \/ \E email \in LookupEmails : DetectProviderCall(email)
    \/ \E email \in LookupEmails : IsOAuthSupportedCall(email)

SpecLookup == Init /\ [][NextLookup]_vars

-----------------------------------------------------------------------------
(* Properties of ensureFreshToken and isTokenExpired *)

\* lastOp is a step of ensureFreshToken: its first one (load, check, send), or
\* the one after the await
Ensure == lastOp.op = "ensureFreshToken"
FirstStep == Ensure /\ lastOp.resp = NoResponse
AfterAwait == Ensure /\ lastOp.resp # NoResponse
Returned == Ensure /\ lastOp.outcome = "returned"
Thrown == Ensure /\ lastOp.outcome = "thrown"
\* The record the store holds for the email of lastOp
Stored == loadTokens(files, lastOp.email)
\* The loaded record is neither expired nor within the buffer of its expiry
Fresh(tokens, t) == t < tokens.tokenExpiry - REFRESH_BUFFER_MS
\* The provider of the record is known and its client credential loads
ClientAvailable(tokens) ==
    /\ detectProvider(tokens.email) # NoProvider
    /\ loadClientConfig(clientFile, detectProvider(tokens.email).name) # NoClientConfig

\* C1: a call that loads a record with now < tokenExpiry - 60000 returns the
\* stored access token, sends no refresh grant and leaves the store as it found it.
C1_FreshRecordServedFromStore ==
    (Ensure /\ lastOp.tokens # NoTokens /\ Fresh(lastOp.tokens, now))
        => /\ lastOp.outcome = "returned"
           /\ lastOp.result = lastOp.tokens.accessToken
           /\ lastOp.nreq = 0
           /\ lastOp.nwrites = 0
           /\ ~lastOp.changed
           /\ Stored = lastOp.tokens

C1_Witness ==
    /\ Returned /\ lastOp.nreq = 0
    /\ lastOp.tokens # NoTokens
    /\ lastOp.result = lastOp.tokens.accessToken
    /\ lastOp.result.n > 0

\* C2: a call that loads an expired or nearly expired record with a refresh
\* token and a client credential sends exactly one refresh grant; when the
\* grant succeeds the call stores a record with the issued access token and
\* tokenExpiry = now + expiresIn * 1000, and returns the issued access token.
C2_RefreshPersistsIssuedToken ==
    /\ (FirstStep /\ lastOp.tokens # NoTokens /\ ~Fresh(lastOp.tokens, now)
            /\ ~Falsy(lastOp.tokens.refreshToken) /\ ClientAvailable(lastOp.tokens))
        => (lastOp.outcome = "awaiting" /\ lastOp.nreq = 1)
    /\ (AfterAwait /\ Issues(lastOp.resp) /\ ResponseOk(lastOp.resp.status))
        => /\ lastOp.outcome = "returned"
           /\ lastOp.nreq = 1
           /\ lastOp.nwrites = 1
           /\ lastOp.result = lastOp.resp.access_token
           /\ Stored # NoTokens
           /\ Stored.accessToken = lastOp.resp.access_token
           /\ Stored.tokenExpiry = now + RefreshOutcome(lastOp.resp).expiresIn * 1000

C2_Witness ==
    /\ Returned /\ lastOp.nreq = 1
    /\ lastOp.tokens.tokenExpiry <= now
    /\ Stored.accessToken = lastOp.result
    /\ Stored.tokenExpiry = now + 120 * 1000

\* C3: after a successful refresh the stored refresh token is the one of the
\* response when the response supplied one, and otherwise the one the call
\* loaded; it is never empty. (A refresh_token that is the empty string
\* supplies none: the stored token is never emptied.)
C3_RefreshTokenRotatedOrKept ==
    (Returned /\ lastOp.nreq = 1)
        => /\ Stored # NoTokens
           /\ ~Falsy(Stored.refreshToken)
           /\ Stored.refreshToken =
                IF Falsy(lastOp.resp.refresh_token) THEN lastOp.tokens.refreshToken
                ELSE lastOp.resp.refresh_token

C3_Witness ==
    /\ Returned /\ lastOp.nreq = 1
    /\ lastOp.resp.refresh_token = Undefined
    /\ Stored.refreshToken = lastOp.tokens.refreshToken
    /\ Stored.accessToken # lastOp.tokens.accessToken

\* C4: with an endpoint that rotates the refresh token on every grant, once no
\* call is in progress the stored refresh token is the most recently issued one.
C4_RotationNeverLost ==
    ((\A c \in Calls : ~InFlight(c)) /\ endpoint.issued > 0 /\ endpoint.allRotated
        /\ loadTokens(files, GmailUser) # NoTokens)
        => loadTokens(files, GmailUser).refreshToken = endpoint.latestRT

\* C5: a returned access token is the stored one of a record that had
\* now < tokenExpiry - 60000 when it was loaded, or the one issued by the
\* refresh grant of this call.
C5_NoStaleTokenReturned ==
    Returned
        => \/ /\ lastOp.nreq = 0
              /\ lastOp.tokens # NoTokens
              /\ lastOp.result = lastOp.tokens.accessToken
              /\ now < lastOp.tokens.tokenExpiry - REFRESH_BUFFER_MS
           \/ /\ lastOp.nreq = 1
              /\ Issues(lastOp.resp)
              /\ lastOp.result = lastOp.resp.access_token

\* the stored token was within the buffer, not yet expired, and was refreshed
C5_Witness ==
    /\ Returned /\ lastOp.nreq = 1
    /\ lastOp.result # lastOp.tokens.accessToken
    /\ lastOp.tokens.tokenExpiry > now
    /\ lastOp.tokens.tokenExpiry - REFRESH_BUFFER_MS <= now

\* The refresh grant of the call of lastOp failed
GrantFailed ==
    \/ /\ AfterAwait
       /\ \/ lastOp.resp.kind = "rejected"
          \/ ~ResponseOk(lastOp.resp.status)
          \/ Falsy(lastOp.resp.access_token)
    \/ /\ FirstStep /\ lastOp.tokens # NoTokens /\ ~Fresh(lastOp.tokens, now)
       /\ ~ClientAvailable(lastOp.tokens)

\* C6: when the refresh grant fails (fetch rejected, status not 2xx, no
\* access_token, unknown provider, no client credential) the call throws, has
\* sent at most one request and has not written the store.
C6_FailedRefreshThrowsWithoutWrite ==
    GrantFailed
        => /\ lastOp.outcome = "thrown"
           /\ lastOp.err # NoError
           /\ lastOp.nreq <= 1
           /\ lastOp.nwrites = 0
           /\ ~lastOp.changed

C6_Witness ==
    /\ Thrown /\ lastOp.nreq = 1
    /\ lastOp.resp.status = 200
    /\ lastOp.err = NoAccessToken
    /\ Stored = lastOp.tokens

\* C7: a refresh grant answered 400 or 401 fails with the re-authenticate
\* instruction; any other status outside 2xx fails with an error that carries
\* the status and no re-authenticate instruction.
C7_InvalidVersusTransient ==
    (AfterAwait /\ lastOp.resp.kind = "http" /\ ~ResponseOk(lastOp.resp.status))
        => /\ lastOp.outcome = "thrown"
           /\ IF lastOp.resp.status \in {400, 401}
              THEN lastOp.err.reauth
              ELSE ~lastOp.err.reauth /\ lastOp.err.status = lastOp.resp.status

C7_Witness ==
    /\ Thrown
    /\ lastOp.resp.kind = "http" /\ lastOp.resp.status = 400
    /\ lastOp.err.reauth

\* The account file of the email of lastOp is missing, is no JSON, or has a
\* secret field that does not decrypt
Unloadable ==
    LET raw == files[emailToFilename(lastOp.email)] IN
    \/ raw.kind = "none"
    \/ raw.kind = "garbage"
    \/ raw.kind = "json" /\ (~decrypt(raw.accessToken).ok \/ ~decrypt(raw.refreshToken).ok)

\* C8: when no record can be loaded the call fails with the no-tokens-found
\* error, sends no request and writes nothing.
C8_NoRecordNoTokensFound ==
    (FirstStep /\ Unloadable)
        => /\ lastOp.outcome = "thrown"
           /\ lastOp.err = NoTokensFound
           /\ lastOp.nreq = 0
           /\ lastOp.nwrites = 0
           /\ ~lastOp.changed

C8_Witness ==
    /\ Thrown /\ lastOp.err = NoTokensFound
    /\ files[emailToFilename(lastOp.email)].kind = "json"

\* The loaded record needs a refresh and holds no refresh token
NeedsRefreshWithoutToken ==
    /\ FirstStep /\ lastOp.tokens # NoTokens
    /\ ~Fresh(lastOp.tokens, now)
    /\ Falsy(lastOp.tokens.refreshToken)

\* C9 as stated: a record that needs a refresh and holds no refresh token makes
\* the call fail with the re-authenticate instruction and without a request,
\* whatever the client-credential store holds.
C9_Original ==
    NeedsRefreshWithoutToken
        => (lastOp.outcome = "thrown" /\ lastOp.err.reauth /\ lastOp.nreq = 0)

\* C9 amended: such a call fails without a request; the error carries the
\* re-authenticate instruction when the provider is known and its client
\* credential loads, and is the unknown-provider or no-client-configured error,
\* without that instruction, otherwise.
C9_NoRefreshTokenFailsBeforeRequest ==
    NeedsRefreshWithoutToken
        => /\ lastOp.outcome = "thrown"
           /\ lastOp.nreq = 0
           /\ ~lastOp.changed
           /\ IF ClientAvailable(lastOp.tokens)
              THEN lastOp.err = NoRefreshToken /\ lastOp.err.reauth
              ELSE lastOp.err \in {UnknownProvider, NoClientConfigured} /\ ~lastOp.err.reauth

C9_Witness ==
    /\ NeedsRefreshWithoutToken
    /\ ClientAvailable(lastOp.tokens)
    /\ lastOp.err = NoRefreshToken

\* C10: isTokenExpired sends no request and writes nothing, and is true exactly
\* when no record loads or now >= tokenExpiry - 60000, which is exactly when
\* ensureFreshToken would not serve the stored token.
C10_IsTokenExpiredReadOnly ==
    lastOp.op = "isTokenExpired"
        => /\ lastOp.nreq = 0
           /\ lastOp.nwrites = 0
           /\ ~lastOp.changed
           /\ lastOp.flag = (Stored = NoTokens \/ now >= Stored.tokenExpiry - REFRESH_BUFFER_MS)
           /\ lastOp.flag = ~(Stored # NoTokens /\ StillValid(Stored, now))

C10_Witness ==
    /\ lastOp.op = "isTokenExpired"
    /\ Stored # NoTokens
    /\ lastOp.flag
    /\ now < Stored.tokenExpiry

-----------------------------------------------------------------------------
(* Properties of runOAuthFlow and the callback server *)

\* lastOp is a request the callback server handled; the flow it belongs to
Handled == lastOp.op = "request"
FlowOf == flows[lastOp.flow]
\* The step resolved the wait, rejected it
Resolves == Handled /\ lastOp.settled = "resolved"
Rejects == lastOp.op \in {"request", "timer", "waitForCallback"} /\ lastOp.settled = "rejected"
\* The request is for the callback path and carries a code and the state of the flow
ToCallback == lastOp.req.path = "/callback"
CarriesCodeAndState ==
    /\ ToCallback
    /\ ~Falsy(lastOp.req.code)
    /\ lastOp.req.state = FlowOf.state

Malformed ==
    /\ Handled /\ ToCallback
    /\ Falsy(lastOp.req.error)
    /\ (Falsy(lastOp.req.code) \/ lastOp.req.state # FlowOf.state)

\* C12: a request to the callback path without a code or with another state
\* than the expected one is answered 400, makes the wait reject with the
\* state-mismatch error, and the flow ends without saving a record.
C12_MismatchRejectsWithoutRecord ==
    Malformed
        => /\ lastOp.answer.status = 400
           /\ FlowOf.wait = "rejected"
           /\ FlowOf.pc = "thrown"
           /\ lastOp.settled = "rejected" => lastOp.threw = CallbackStateMismatch
           /\ ~lastOp.changed

\* C13: a request to the callback path with an `error` parameter is answered
\* 200 with the failure page, makes the wait reject with the
\* provider-denied-consent error, and closes the listener.
C13_DeniedClosesListener ==
    (Handled /\ ToCallback /\ ~Falsy(lastOp.req.error))
        => /\ lastOp.answer.status = 200
           /\ lastOp.answer.page = "errorPage"
           /\ FlowOf.wait = "rejected"
           /\ lastOp.settled = "rejected" => lastOp.threw = ProviderDeniedConsent
           /\ FlowOf.server = "closed"

\* The timer of a flow fired in the step to lastOp, and found the wait pending
TimerFired == lastOp.op = "timer"
TimedOut == TimerFired /\ lastOp.settled = "rejected"

\* C14: the timer fires no earlier than 5 minutes after the wait began; when
\* it finds the wait pending, the wait rejects with the timeout error, the
\* server is closed, and runOAuthFlow throws that error without having written
\* to the store.  A wait is never left pending by the timer.
C14_TimeoutRejectsAndCloses ==
    /\ TimerFired
        => /\ now >= FlowOf.deadline
           /\ FlowOf.wait # "pending"
           /\ FlowOf.server # "listening"
           /\ ports[FlowOf.port] # BoundByFlow(lastOp.flow)
           /\ ~lastOp.changed /\ lastOp.nwrites = 0
    /\ TimedOut
        => /\ lastOp.threw = CallbackTimeout
           /\ FlowOf.pc = "thrown" /\ FlowOf.err = CallbackTimeout
           /\ FlowOf.server = "closed"
    /\ \A f \in Flows :
        /\ flows[f].err = CallbackTimeout
            => (flows[f].pc = "thrown" /\ now >= flows[f].deadline /\ flows[f].timer = "fired")
        /\ flows[f].timer = "fired" => flows[f].wait # "pending"
        /\ flows[f].wait = "pending" => flows[f].timer = "armed"

C14_Witness ==
    /\ TimedOut
    /\ FlowOf.server = "closed"
    /\ FlowOf.closes = 1
    /\ files[emailToFilename(GmailUser)].kind = "json"

\* C15: a request to another path than /callback is answered 404 and changes
\* nothing: the server goes on listening, the wait stays as it was, the store
\* and the ports are untouched; and a valid callback handled while the wait is
\* pending resolves it with its code, whatever was handled before.
C15_OtherPathChangesNothing ==
    [][/\ (lastOp'.op = "request" /\ lastOp'.req.path # "/callback")
            => /\ lastOp'.answer.status = 404
               /\ lastOp'.settled = "none"
               /\ lastOp'.threw = NoError
               /\ flows' = flows
               /\ flows'[lastOp'.flow].server = "listening"
               /\ ports' = ports
               /\ files' = files
               /\ endpoint' = endpoint
       /\ (/\ lastOp'.op = "request"
           /\ flows[lastOp'.flow].wait = "pending"
           /\ lastOp'.req.path = "/callback"
           /\ Falsy(lastOp'.req.error)
           /\ ~Falsy(lastOp'.req.code)
           /\ lastOp'.req.state = flows[lastOp'.flow].state)
            => /\ flows'[lastOp'.flow].wait = "resolved"
               /\ flows'[lastOp'.flow].code = lastOp'.req.code
      ]_vars

C15_Witness ==
    /\ Handled
    /\ lastOp.answer.status = 404
    /\ FlowOf.wait = "pending"
    /\ FlowOf.server = "listening"
    /\ lastOp.req.state = FlowOf.state

\* The callback server of flow f was started and the wait has left Listening
LeftListening(f) ==
    /\ flows[f].server \in {"listening", "closed"}
    /\ flows[f].wait \in {"resolved", "rejected"}

\* C16: once the wait has left Listening the socket is closed, and close is
\* never called on it more than once.
C16_SocketClosedExactlyOnce ==
    \A f \in Flows :
        /\ LeftListening(f) => (flows[f].server = "closed" /\ flows[f].closes = 1)
        /\ flows[f].closes <= 1

\* C17: the wait reaches one outcome, and once it has resolved the listener
\* handles no further request.
C17_NoRequestAfterResolution ==
    (Handled /\ FlowOf.wait = "resolved") => lastOp.settled = "resolved"

\* The outcome of a wait, once reached, is the outcome for good
OutcomeDecidedOnce ==
    [][\A f \in Flows :
        flows[f].wait \in {"resolved", "rejected"}
            => /\ flows'[f].wait = flows[f].wait
               /\ flows'[f].code = flows[f].code
               /\ (flows[f].wait = "rejected" => flows'[f].err = flows[f].err)]_vars

\* C18: when runOAuthFlow throws after the callback server was started, the
\* server is no longer listening.
C18_ListenerClosedWhenFlowFails ==
    \A f \in Flows :
        (flows[f].pc = "thrown" /\ flows[f].timer # "none")
            => flows[f].server # "listening"

\* C19: from the moment the authorization URL is presented until the wait
\* ends, the callback server is listening on the port the redirect URI names.
C19_ListeningBeforeUrlPresented ==
    \A f \in Flows :
        (flows[f].url # NoUrl /\ flows[f].pc \in {"opening", "waiting"})
            => /\ flows[f].server = "listening"
               /\ ports[flows[f].url.redirect_uri.port] = BoundByFlow(f)

\* lastOp is the first step of runOAuthFlow
FlowCalled == lastOp.op = "runOAuthFlow"
\* The client configuration file holds an entry for the provider
HasEntry(provider) == clientFile.kind = "json" /\ clientFile.configs[provider].present

\* C20: runOAuthFlow throws provider-not-supported when no provider serves the
\* address and client-not-configured when no client credential of the provider
\* loads; in both cases no listener was started, no URL presented, no request
\* sent, and the store and the ports are as they were.
C20_FailsBeforeAnySideEffect ==
    /\ (FlowCalled /\ detectProvider(lastOp.email) = NoProvider)
        => lastOp.threw = ProviderNotSupported
    /\ (FlowCalled /\ detectProvider(lastOp.email) # NoProvider
            /\ \/ loadClientConfig(clientFile, detectProvider(lastOp.email).name) = NoClientConfig
               \/ ~HasEntry(detectProvider(lastOp.email).name))
        => lastOp.threw = ClientNotConfigured
    /\ (FlowCalled /\ lastOp.threw # NoError)
        => /\ lastOp.threw \in {ProviderNotSupported, ClientNotConfigured}
           /\ FlowOf.pc = "thrown" /\ FlowOf.err = lastOp.threw
           /\ FlowOf.server = "none" /\ FlowOf.wait = "none" /\ FlowOf.timer = "none"
           /\ FlowOf.port = NoPort
           /\ FlowOf.url = NoUrl
           /\ FlowOf.request = NoRequest /\ lastOp.nreq = 0
           /\ ~lastOp.changed /\ lastOp.nwrites = 0
           /\ \A p \in Ports : ports[p] # BoundByFlow(lastOp.flow)
    /\ \A f \in Flows :
        flows[f].err \in {ProviderNotSupported, ClientNotConfigured}
            => (flows[f].server = "none" /\ flows[f].url = NoUrl /\ flows[f].closes = 0)

C20_Witness ==
    /\ FlowCalled
    /\ lastOp.email = OutlookUser
    /\ lastOp.threw = ClientNotConfigured
    /\ HasEntry("google")
    /\ files[emailToFilename(GmailUser)].kind = "json"

\* C21: the store changes only in the step in which the exchange of a flow
\* has returned an access token and the flow returns; a flow that has returned
\* or thrown takes no further step of its own that writes, and the step in
\* which a flow throws leaves the store as it was.
C21_StoreWrittenOnceAfterExchange ==
    [][/\ files' # files
            => /\ lastOp'.op = "exchange"
               /\ lastOp'.returned /\ lastOp'.nwrites = 1
               /\ Issues(lastOp'.resp) /\ ResponseOk(lastOp'.resp.status)
               /\ flows[lastOp'.flow].pc = "exchanging"
               /\ flows'[lastOp'.flow].pc = "returned"
       /\ \A f \in Flows :
            /\ flows[f].pc \in {"returned", "thrown"} => flows'[f].pc = flows[f].pc
            /\ (flows'[f].pc = "thrown" /\ flows[f].pc # "thrown") => files' = files
            /\ (flows'[f].pc = "returned" /\ flows[f].pc # "returned")
                => ~Falsy(loadTokens(files', flows[f].email).accessToken)
      ]_vars

C21_Witness ==
    /\ lastOp.op = "exchange"
    /\ lastOp.threw = NoAccessToken
    /\ ~lastOp.changed
    /\ files[emailToFilename(lastOp.email)].kind = "json"

\* The step to lastOp is the one in which a flow returned
FlowReturned == lastOp.op = "exchange" /\ lastOp.returned

\* C22: when runOAuthFlow returns, loadTokens of its address gives a record
\* with the access token of the response, the refresh token of the response
\* (the empty string when the response has none), the detected provider, and
\* tokenExpiry = now + expiresIn * 1000, which is the tokenExpiry of the result.
C22_FlowResultIsStored ==
    FlowReturned
        => /\ Stored # NoTokens
           /\ Stored.email = lastOp.email
           /\ Stored.provider = detectProvider(lastOp.email).name
           /\ Stored.accessToken = lastOp.resp.access_token
           /\ Stored.refreshToken =
                (IF Falsy(lastOp.resp.refresh_token) THEN EmptyString
                 ELSE lastOp.resp.refresh_token)
           /\ Stored.tokenExpiry = now + ExchangeOutcome(lastOp.resp).expiresIn * 1000
           /\ Stored.tokenExpiry = lastOp.result.tokenExpiry
           /\ lastOp.result.accessToken = Stored.accessToken
           /\ lastOp.result.refreshToken = Stored.refreshToken

C22_Witness ==
    /\ FlowReturned
    /\ now > 0
    /\ Stored.accessToken = AccessTokenNo(1)
    /\ Stored.refreshToken = RefreshTokenNo(1)
    /\ Stored.tokenExpiry = now + 120 * 1000

\* The expires_in of the response when the field is there, 3600 when it is not
ExpiresInOrDefault(resp) ==
    IF resp.expires_in.defined THEN resp.expires_in.value ELSE 3600

\* C23: for the code exchange and for the refresh grant alike, the stored
\* tokenExpiry is now + expires_in * 1000 whenever the response carries
\* expires_in, and now + 3600 * 1000 only when it does not.
C23_DefaultOnlyWhenAbsent ==
    /\ FlowReturned => Stored.tokenExpiry = now + ExpiresInOrDefault(lastOp.resp) * 1000
    /\ (Returned /\ lastOp.nreq = 1)
        => Stored.tokenExpiry = now + ExpiresInOrDefault(lastOp.resp) * 1000

\* The response is a 2xx one without an access_token
OkWithoutAccessToken(resp) ==
    resp.kind = "http" /\ ResponseOk(resp.status) /\ Falsy(resp.access_token)

\* C24: a 2xx response without access_token makes the exchange, and the
\* refresh grant, throw the no-access-token error, which is not the error of a
\* failed status; the store is left as it was; and no stored or returned
\* access token is ever empty or undefined.
C24_MissingAccessTokenIsMalformed ==
    /\ (lastOp.op = "exchange" /\ OkWithoutAccessToken(lastOp.resp))
        => /\ lastOp.threw = NoAccessToken
           /\ lastOp.threw.kind # TokenExchangeFailed(lastOp.resp.status).kind
           /\ ~lastOp.returned
           /\ ~lastOp.changed /\ lastOp.nwrites = 0
    /\ (AfterAwait /\ OkWithoutAccessToken(lastOp.resp))
        => /\ lastOp.outcome = "thrown"
           /\ lastOp.err = NoAccessToken
           /\ lastOp.err.kind # RefreshStatusError(lastOp.resp.status).kind
           /\ ~lastOp.changed /\ lastOp.nwrites = 0
    /\ \A e \in Emails :
        loadTokens(files, e) # NoTokens => ~Falsy(loadTokens(files, e).accessToken)
    /\ Returned => ~Falsy(lastOp.result)
    /\ FlowReturned => ~Falsy(lastOp.result.accessToken)

C24_Witness ==
    /\ lastOp.op = "exchange"
    /\ OkWithoutAccessToken(lastOp.resp)
    /\ lastOp.threw = NoAccessToken
    /\ Stored # NoTokens
    /\ Stored.accessToken = AccessTokenNo(1)

-----------------------------------------------------------------------------
(* Properties of the token store and the client credential file *)

\* A secret field that is not of the form salt:iv:tag:ciphertext, and one
\* written under another key
MalformedSecret(x) == Len(SplitColon(x)) # 4
ForeignSecret(x) == ~MalformedSecret(x) /\ x.parts[4].key.passphrase # Passphrase
BadSecret(x) == MalformedSecret(x) \/ ForeignSecret(x)

\* The account file loadTokens(email) reads, and the entry loadClientConfig(p) reads
AccountFile(email) == files[emailToFilename(email)]
Unreadable(file) == file.kind = "none" \/ file.kind = "garbage"

\* C25: loadTokens never throws and returns none when the account file is
\* missing, is no valid JSON, or holds a secret field that is malformed or
\* fails authenticated decryption; loadClientConfig does the same for the
\* client credential file.
C25_LoadsReturnNoneNeverThrow ==
    /\ lastOp.op = "loadTokens" =>
         LET raw == AccountFile(lastOp.email) IN
         /\ lastOp.outcome = "returned"
         /\ (\/ Unreadable(raw)
             \/ raw.kind = "json" /\ (BadSecret(raw.accessToken) \/ BadSecret(raw.refreshToken)))
               => lastOp.tokens = NoTokens
         /\ lastOp.tokens # NoTokens
               => lastOp.tokens.accessToken # Undefined /\ lastOp.tokens.refreshToken # Undefined
    /\ lastOp.op = "loadClientConfig" =>
         /\ lastOp.outcome = "returned"
         /\ (\/ Unreadable(clientFile)
             \/ clientFile.kind = "json"
                  /\ clientFile.configs[lastOp.result.k].present
                  /\ BadSecret(clientFile.configs[lastOp.result.k].clientSecret))
               => lastOp.config = NoClientConfig
         /\ lastOp.config # NoClientConfig => lastOp.config.clientSecret # Undefined

C25_Witness ==
    /\ lastOp.op = "loadTokens"
    /\ AccountFile(lastOp.email).kind = "json"
    /\ ForeignSecret(AccountFile(lastOp.email).accessToken)
    /\ lastOp.tokens = NoTokens

\* loadTokens(email) gives back the record r in every field but updatedAt
SameRecord(loaded, r) ==
    /\ loaded.kind = "tokens"
    /\ loaded.email = r.email
    /\ loaded.provider = r.provider
    /\ loaded.accessToken = r.accessToken
    /\ loaded.refreshToken = r.refreshToken
    /\ loaded.tokenExpiry = r.tokenExpiry
    /\ loaded.scopes = r.scopes
    /\ loaded.createdAt = r.createdAt

WellFormed(s) == s.k # "unpaired surrogate"

C27_OtherAccountUntouched ==
    [][\A e2 \in StoreEmails :
          (/\ lastOp'.op \in {"saveTokens", "deleteTokens"}
           /\ toLowerCase(lastOp'.email) # toLowerCase(e2))
             => /\ loadTokens(files', e2) = loadTokens(files, e2)
                /\ hasTokens(files', e2) = hasTokens(files, e2)]_vars

\* A secret in the form encrypt gives it, its plaintext no ciphertext itself
EncryptedOnce(x) ==
    /\ x.k = "encrypted"
    /\ Len(x.parts) = 4
    /\ x.parts[4].plaintext.bytesOf.k # "encrypted"

\* C28: a save persists accessToken, refreshToken and clientSecret in the
\* encrypted form salt:iv:tag:ciphertext, never as plaintext and never as the
\* encryption of a ciphertext; what a save does not write stays as it was, so
\* no secret already persisted is encrypted again.
C28_SecretsPersistedEncryptedOnce ==
    [][/\ lastOp'.op = "saveTokens" =>
            LET name == emailToFilename(lastOp'.email) IN
            /\ files'[name].kind = "json"
            /\ EncryptedOnce(files'[name].accessToken)
            /\ EncryptedOnce(files'[name].refreshToken)
            /\ \A f \in DOMAIN files : f # name => files'[f] = files[f]
            /\ clientFile' = clientFile
       /\ lastOp'.op = "saveClientConfig" =>
            LET p == lastOp'.config.provider IN
            /\ clientFile'.kind = "json"
            /\ clientFile'.configs[p].present
            /\ EncryptedOnce(clientFile'.configs[p].clientSecret)
            /\ \A q \in ProviderNames \ {p} :
                  clientFile'.configs[q] = ParsedConfigs(clientFile)[q]
            /\ files' = files]_vars

C28_Witness ==
    /\ lastOp.op = "saveClientConfig"
    /\ \A q \in ProviderNames :
          clientFile.configs[q].present /\ EncryptedOnce(clientFile.configs[q].clientSecret)

\* C29: a run of runOAuthFlow or ensureFreshToken never leaves an account
\* whose stored refresh token was not empty with an empty one: a response
\* without refresh_token does not erase the refresh token already stored.
C29_RefreshTokenNeverErased ==
    [][LET before == loadTokens(files, GmailUser)
           after == loadTokens(files', GmailUser)
       IN (/\ before # NoTokens
           /\ ~Falsy(before.refreshToken)
           /\ after # NoTokens)
             => ~Falsy(after.refreshToken)]_vars

\* C30: saveClientConfig for a provider p replaces the entry of p alone: after
\* it loadClientConfig(p) returns the clientId and the plaintext clientSecret
\* just saved, and loadClientConfig(q) returns what it returned before for
\* every other provider q.
C30_SaveReplacesOnlyItsProvider ==
    [][lastOp'.op = "saveClientConfig" =>
          LET config == lastOp'.config IN
          \A q \in ProviderNames :
             loadClientConfig(clientFile', q) =
                IF q = config.provider
                THEN [kind |-> "config",
                      provider |-> config.provider,
                      clientId |-> config.clientId,
                      clientSecret |-> config.clientSecret]
                ELSE loadClientConfig(clientFile, q)]_vars

C30_Witness ==
    /\ lastOp.op = "saveClientConfig"
    /\ lastOp.config.provider = "google"
    /\ lastOp.changed
    /\ loadClientConfig(clientFile, "google").clientSecret = ClientSecretNo(1)
    /\ loadClientConfig(clientFile, "microsoft") # NoClientConfig

-----------------------------------------------------------------------------
(* Properties of detectProvider *)

Reverse(seq) == [i \in 1 .. Len(seq) |-> seq[Len(seq) + 1 - i]]
Registry == {PROVIDERS[i] : i \in 1 .. Len(PROVIDERS)}

\* The lowercased text after the '@' of an address with one '@'; for a string
\* with several, the text up to the second '@', as split('@')[1] has it; for a
\* string with none, no domain
DomainAfterAt(email) ==
    LET ats == IndicesOf(email, "@")
        rest == {i \in ats : i > Min(ats)}
    IN IF ats = {} THEN NoString
       ELSE toLowerCase(SubSeq(email, Min(ats) + 1,
                               IF rest = {} THEN Len(email) ELSE Min(rest) - 1))

\* The two phases of the lookup: the providers whose domain set contains the
\* domain, and those with a domain d such that the domain ends with '.' + d
ExactProviders(domain) ==
    {p \in Registry : \E i \in 1 .. Len(p.domains) : p.domains[i] = domain}
SuffixProviders(domain) ==
    {p \in Registry : \E i \in 1 .. Len(p.domains) : endsWith(domain, <<".">> \o p.domains[i])}
TwoPhaseLookup(email) ==
    IF IndicesOf(email, "@") = {} THEN {}
    ELSE IF ExactProviders(DomainAfterAt(email)) # {} THEN ExactProviders(DomainAfterAt(email))
    ELSE SuffixProviders(DomainAfterAt(email))

\* C31: detectProvider(email) is total and deterministic and is the provider
\* the two-phase lookup finds (exact match of the lowercased domain first,
\* then a match of a '.'-separated suffix), none when it finds none; the
\* registry taken in the other order gives the same result, and
\* isOAuthSupported(email) is true exactly when the result is not none.
C31_DetectProviderIsTwoPhaseLookup ==
    lastOp.op \in {"detectProvider", "isOAuthSupported"} =>
        /\ lastOp.provider \in Registry \cup {NoProvider}
        /\ lastOp.provider = detectProvider(lastOp.email)
        /\ Cardinality(TwoPhaseLookup(lastOp.email)) <= 1
        /\ IF TwoPhaseLookup(lastOp.email) = {} THEN lastOp.provider = NoProvider
           ELSE lastOp.provider \in TwoPhaseLookup(lastOp.email)
        /\ lastOp.provider = detectProviderIn(Reverse(PROVIDERS), lastOp.email)
        /\ lastOp.flag = (lastOp.provider # NoProvider)

C31_Witness ==
    /\ lastOp.op = "detectProvider"
    /\ ExactProviders(DomainAfterAt(lastOp.email)) = {}
    /\ SuffixProviders(DomainAfterAt(lastOp.email)) = {MICROSOFT_PROVIDER}
    /\ lastOp.email # toLowerCase(lastOp.email)
    /\ lastOp.provider = MICROSOFT_PROVIDER

-----------------------------------------------------------------------------
(* Properties of overlapping invocations *)

\* C32: of two runOAuthFlow calls for different emails that overlap, neither
\* fails to start its listener, each listener is on a port of its own, and
\* neither is handed the callback of the other: a callback a flow handles
\* carries that flow's state, and no flow fails on a state mismatch.
C32_ConcurrentFlowsKeepApart ==
    /\ \A f \in Flows :
          /\ flows[f].err # CallbackServerFailed
          /\ flows[f].err # CallbackStateMismatch
          /\ flows[f].server = "listening" => ports[flows[f].port] = BoundByFlow(f)
    /\ \A f \in Flows, g \in Flows :
          (f # g /\ flows[f].server = "listening" /\ flows[g].server = "listening")
             => flows[f].port # flows[g].port
    /\ lastOp.op = "request" => lastOp.req.state = flows[lastOp.flow].state

\* Another invocation for the email of lastOp is suspended on its refresh grant
OtherCallInFlight == \E d \in Calls : InFlight(d) /\ calls[d].email = lastOp.email

\* C33: ensureFreshToken has no single-flight protection: a call that loads a
\* record in need of a refresh sends a refresh grant of its own with the
\* refresh token it loaded, whether or not another call for the account is
\* suspended on its grant; so two overlapping calls can send the same refresh
\* token, and with a rotating provider the first can succeed and the second fail.
C33_NoSingleFlight ==
    /\ (/\ FirstStep
        /\ lastOp.tokens # NoTokens
        /\ ~Fresh(lastOp.tokens, now)
        /\ ~Falsy(lastOp.tokens.refreshToken)
        /\ ClientAvailable(lastOp.tokens))
          => /\ lastOp.outcome = "awaiting"
             /\ lastOp.nreq = 1
             /\ \E c \in Calls :
                   /\ calls[c].pc = "fetching"
                   /\ calls[c].request.refresh_token = lastOp.tokens.refreshToken
    /\ \A c \in Calls :
          calls[c].pc = "fetching"
             => /\ calls[c].request.sent
                /\ calls[c].request.refresh_token = calls[c].tokens.refreshToken

\* Two calls are suspended on grants that carry the same refresh token
C33_BothInFlight ==
    /\ FirstStep /\ lastOp.outcome = "awaiting"
    /\ \A c \in Calls :
          calls[c].pc = "fetching" /\ calls[c].request.refresh_token = RefreshTokenNo(0)

\* The second of two overlapping calls fails: it sent the refresh token that
\* the grant of the first call, which succeeded and was stored, has superseded
C33_Witness ==
    /\ Thrown /\ AfterAwait
    /\ lastOp.nreq = 1
    /\ lastOp.err = RefreshTokenInvalid
    /\ lastOp.tokens.refreshToken = RefreshTokenNo(0)
    /\ endpoint.issued = 1 /\ endpoint.allRotated
    /\ Stored # NoTokens
    /\ Stored.refreshToken = endpoint.latestRT
    /\ Stored.refreshToken # lastOp.tokens.refreshToken
    /\ Stored.accessToken # lastOp.tokens.accessToken

-----------------------------------------------------------------------------
(* Properties of the mail operations *)

\* C34: for an account with authType 'oauth' the transport is created only
\* after ensureFreshToken returned, with the account carrying the token it
\* returned; when ensureFreshToken throws, the operation fails with the
\* AUTH_ERROR, creates no transport and sends no mail; for any other account
\* ensureFreshToken is never called.
C34_FreshTokenBeforeTransport ==
    /\ (mail.account.authType = "oauth" /\ mail.transport # NoTransport)
          => /\ mail.ensureCalls = 1
             /\ mail.ensured = "returned"
             /\ ~Falsy(mail.token)
                   => mail.transport.auth = [type |-> "OAuth2", user |-> mail.account.email,
                                             accessToken |-> mail.token, pass |-> Undefined]
    /\ mail.sendMailCalls > 0 => mail.transport # NoTransport
    /\ mail.ensured = "thrown"
          => /\ mail.pc = "failed"
             /\ mail.err = AuthError
             /\ mail.transport = NoTransport
             /\ mail.sendMailCalls = 0
    /\ (mail.ensureCalls = 1 /\ mail.ensured = "none") => mail.pc = "refreshing"
    /\ mail.account.authType # "oauth"
          => /\ mail.ensureCalls = 0
             /\ mail.ensured = "none"
             /\ \A c \in Calls : calls[c] = IdleCall
             /\ lastOp.op # "ensureFreshToken"

\* the refresh grant of the operation failed: AUTH_ERROR and no mail
C34_Witness ==
    /\ mail.pc = "failed"
    /\ mail.err = AuthError
    /\ mail.op = "replyToEmail"
    /\ lastOp.op = "ensureFreshToken" /\ lastOp.nreq = 1 /\ lastOp.outcome = "thrown"
    /\ mail.sendMailCalls = 0

\* a refreshed token reaches the transport, which sends the mail
C34_SentWithRefreshedToken ==
    /\ mail.pc = "returned"
    /\ mail.transport.auth.type = "OAuth2"
    /\ mail.transport.auth.accessToken = AccessTokenNo(1)

-----------------------------------------------------------------------------
(* Properties of the store under ensureFreshToken *)

\* A call of ensureFreshToken has refreshed the token and saved the record
RefreshSaved(ev) == ev.op = "ensureFreshToken" /\ ev.outcome = "returned" /\ ev.nwrites = 1

\* The record a successful refresh stores has the email, provider, scopes and
\* createdAt of the record the call loaded
C35_IdentityFieldsKept ==
    [][RefreshSaved(lastOp') =>
          LET loaded == lastOp'.tokens
              after == files'[emailToFilename(loaded.email)]
          IN /\ after.kind = "json"
             /\ after.email = loaded.email
             /\ after.provider = loaded.provider
             /\ after.scopes = loaded.scopes
             /\ after.createdAt = loaded.createdAt]_vars

\* C35: a successful refresh by ensureFreshToken(email) stores a record with
\* the email, provider, scopes and createdAt of the record it loaded, and
\* leaves every record of another account as it was.
C35_RefreshChangesOnlyTokenFields ==
    [][RefreshSaved(lastOp') =>
          LET loaded == lastOp'.tokens
              after == files'[emailToFilename(loaded.email)]
          IN /\ after.kind = "json"
             /\ after.email = loaded.email
             /\ after.provider = loaded.provider
             /\ after.scopes = loaded.scopes
             /\ after.createdAt = loaded.createdAt
             /\ \A f \in DOMAIN files :
                   (/\ files[f].kind = "json"
                    /\ toLowerCase(files[f].email) # toLowerCase(lastOp'.email))
                      => files'[f] = files[f]]_vars

\* C36: once deleteTokens(email) has removed the record, loadTokens(email)
\* stays none and hasTokens(email) stays false until a record is saved for the
\* account anew: no step of ensureFreshToken, a call suspended on its refresh
\* grant at the moment of the delete included, brings a record back.
C36_DeletedStaysDeleted ==
    [][\A e \in Emails :
          (~hasTokens(files, e) /\ lastOp'.op # "saveTokens")
             => /\ ~hasTokens(files', e)
                /\ loadTokens(files', e) = NoTokens]_vars

\* A call suspended on its grant while its account is deleted
C36_SuspendedAtDelete ==
    /\ lastOp.op = "deleteTokens" /\ lastOp.flag
    /\ \E c \in Calls : InFlight(c) /\ ~hasTokens(files, calls[c].email)

\* C37: loadTokens(email) returns none or a record whose email field is the
\* requested email up to letter case.
C37_LoadedRecordIsOfRequestedEmail ==
    (lastOp.op = "loadTokens" /\ lastOp.tokens # NoTokens)
        => toLowerCase(lastOp.tokens.email) = toLowerCase(lastOp.email)

\* ensureFreshToken(email) returns the access token of a record whose email is
\* the requested one up to letter case
C37_EnsureServesRequestedAccount ==
    (Returned /\ lastOp.tokens # NoTokens)
        => toLowerCase(lastOp.tokens.email) = toLowerCase(lastOp.email)

\* C40: hasTokens(email) is true exactly when loadTokens(email) returns a
\* record, in every state of the store, a damaged or undecryptable account
\* file included.
C40_HasTokensIffLoadable ==
    \A e \in StoreEmails : hasTokens(files, e) <=> loadTokens(files, e) # NoTokens

\* ensureFreshToken(email) fails with the no-tokens-found error exactly when
\* hasTokens(email) was false
C40_NoTokensFoundIffNoFile ==
    FirstStep => (lastOp.err = NoTokensFound <=> ~hasTokens(files, lastOp.email))

-----------------------------------------------------------------------------
(* Properties of the callback listener over the whole run *)

\* C38: a request is answered with the 200 success page only if it resolves
\* the wait, with the code of that request; once the wait is rejected or
\* resolved no later request is answered with the success page.
C38_SuccessPageOnlyForResolvingRequest ==
    (Handled /\ lastOp.answer.status = 200 /\ lastOp.answer.page = "successPage")
        => /\ lastOp.settled = "resolved"
           /\ FlowOf.wait = "resolved"
           /\ FlowOf.code = lastOp.req.code

\* C39: in every run of runOAuthFlow that starts the callback listener, the
\* listener is eventually closed, whatever the outcome of the flow, and it is
\* no longer listening once the 5-minute timer has fired
C39_ListenerEventuallyClosed ==
    /\ [](\A f \in FirstFlow : flows[f].timer = "fired" => flows[f].server # "listening")
    /\ \A f \in FirstFlow :
         (flows[f].server = "listening") ~> (flows[f].server = "closed")

\* A flow that failed otherwise than by the timeout, and whose listener the
\* timer has closed
C39_Witness ==
    \E f \in FirstFlow :
        /\ lastOp.op = "timer" /\ lastOp.flow = f
        /\ flows[f].pc = "thrown" /\ flows[f].err # CallbackTimeout
        /\ flows[f].server = "closed" /\ flows[f].closes = 1

====
